---- MODULE Spec2Model ----
(***************************************************************************)
(* Model of the application-resolution and lifecycle engine of DeskPilot   *)
(* (src/core/app_launcher.py): name normalisation, alias generation, the   *)
(* installed-application index with its cache, the tiered resolver, the    *)
(* process monitor and the open / quit controllers.                        *)
(*                                                                         *)
(* Strings are sequences of one-character strings, so that the string      *)
(* operations of the source (lower, strip, replace, re.sub, split, "in")   *)
(* are computed character by character as the source computes them.        *)
(***************************************************************************)
EXTENDS Integers, Sequences, FiniteSets, TLC

(***************************************************************************)
(* Characters and Python string primitives                                 *)
(***************************************************************************)
UpperChars == <<"A","B","C","D","E","F","G","H","I","J","K","L","M",
                "N","O","P","Q","R","S","T","U","V","W","X","Y","Z">>

LowerChars == <<"a","b","c","d","e","f","g","h","i","j","k","l","m",
                "n","o","p","q","r","s","t","u","v","w","x","y","z">>

DigitChars == <<"0","1","2","3","4","5","6","7","8","9">>

\* The characters of the model in code-point order (Python compares strings
\* by code point).
AsciiOrder == <<"\t", "\n", " ", "!", "&", "-", ".", "/">> \o DigitChars \o <<"?">>
              \o UpperChars \o <<"_">> \o LowerChars \o <<"é">>

SeqRange(s) == {s[i] : i \in 1..Len(s)}

UpperSet == SeqRange(UpperChars)

LowerAlnumSet == SeqRange(LowerChars) \cup SeqRange(DigitChars)

\* the characters \w matches: str patterns are Unicode patterns, so a
\* letter outside ASCII is a word character too
WordCharSet == LowerAlnumSet \cup UpperSet \cup {"_", "é"}

\* the code point order of the characters, as a rank
CharRank == [c \in SeqRange(AsciiOrder) |-> CHOOSE i \in 1..Len(AsciiOrder) : AsciiOrder[i] = c]

CharCode(c) == CharRank[c]

\* the lowercase letter of each uppercase letter
ToLower == [c \in UpperSet |-> LowerChars[CHOOSE i \in 1..Len(UpperChars) : UpperChars[i] = c]]

\* str.lower() on one character
LowerChar(c) == IF c \in UpperSet THEN ToLower[c] ELSE c

\* str.lower()
lower(s) == [i \in 1..Len(s) |-> LowerChar(s[i])]

\* \s of the re module, and the characters str.strip() removes
IsSpace(c) == c \in {" ", "\t", "\n"}

\* [a-z0-9]
IsLowerAlnum(c) == c \in LowerAlnumSet

\* \w of the re module
IsWordChar(c) == c \in WordCharSet

RECURSIVE lstrip(_)
lstrip(s) == IF s # <<>> /\ IsSpace(Head(s)) THEN lstrip(Tail(s)) ELSE s

RECURSIVE rstrip(_)
rstrip(s) ==
    IF s # <<>> /\ IsSpace(s[Len(s)]) THEN rstrip(SubSeq(s, 1, Len(s) - 1)) ELSE s

\* str.strip()
strip(s) == rstrip(lstrip(s))

\* s[i:].startswith(pat), with 1-based i
StartsAt(s, i, pat) ==
    /\ i + Len(pat) - 1 <= Len(s)
    /\ \A k \in 1..Len(pat) : s[i + k - 1] = pat[k]

\* pat in s
Contains(s, pat) == \E i \in 1..(Len(s) - Len(pat) + 1) : StartsAt(s, i, pat)

\* str.startswith / str.endswith
StartsWith(s, pat) == StartsAt(s, 1, pat)

EndsWith(s, pat) == Len(pat) <= Len(s) /\ StartsAt(s, Len(s) - Len(pat) + 1, pat)

\* str.replace(old, new) for a non-empty old: leftmost, non-overlapping
RECURSIVE ReplaceFrom(_, _, _, _)
ReplaceFrom(s, i, old, new) ==
    IF i > Len(s) THEN <<>>
    ELSE IF StartsAt(s, i, old) THEN new \o ReplaceFrom(s, i + Len(old), old, new)
    ELSE <<s[i]>> \o ReplaceFrom(s, i + 1, old, new)

replace(s, old, new) == ReplaceFrom(s, 1, old, new)

\* re.sub(r"[\._]", " ", s)
SubDotUnderscore(s) == [i \in 1..Len(s) |-> IF s[i] \in {".", "_"} THEN " " ELSE s[i]]

\* \b before position i (1-based; i = Len(s) + 1 is the end of the string)
WordBoundary(s, i) ==
    LET before == i > 1 /\ IsWordChar(s[i - 1])
        after  == i <= Len(s) /\ IsWordChar(s[i])
    IN  before # after

\* the alternatives of alts that match at i with a word boundary on both
\* sides: \b(alt1|alt2|...)\b at position i
AltAt(s, i, alts) ==
    IF ~WordBoundary(s, i) THEN {}
    ELSE {k \in 1..Len(alts) :
             StartsAt(s, i, alts[k]) /\ WordBoundary(s, i + Len(alts[k]))}

\* re.sub(r"\b(alt1|alt2|...)\b", " ", s): at each position the regex engine
\* takes the first alternative, in the order written, that matches
RECURSIVE SubAltsFrom(_, _, _)
SubAltsFrom(s, i, alts) ==
    IF i > Len(s) THEN <<>>
    ELSE LET at == AltAt(s, i, alts)
         IN  IF at # {}
             THEN LET k == CHOOSE k \in at : \A j \in at : k <= j
                  IN  <<" ">> \o SubAltsFrom(s, i + Len(alts[k]), alts)
             ELSE <<s[i]>> \o SubAltsFrom(s, i + 1, alts)

\* the alternatives of r"\b(app|application|the)\b"
FillerWords == << <<"a","p","p">>,
                  <<"a","p","p","l","i","c","a","t","i","o","n">>,
                  <<"t","h","e">> >>

\* re.sub(r"\b(app|application|the)\b", " ", s)
SubFillers(s) == SubAltsFrom(s, 1, FillerWords)

\* re.sub(r"[^a-z0-9]+", " ", s): every maximal run of other characters
\* becomes one space
RECURSIVE SubNonAlnumFrom(_, _)
SubNonAlnumFrom(s, i) ==
    IF i > Len(s) THEN <<>>
    ELSE IF IsLowerAlnum(s[i]) THEN <<s[i]>> \o SubNonAlnumFrom(s, i + 1)
    ELSE IF i > 1 /\ ~IsLowerAlnum(s[i - 1]) THEN SubNonAlnumFrom(s, i + 1)
    ELSE <<" ">> \o SubNonAlnumFrom(s, i + 1)

SubNonAlnum(s) == SubNonAlnumFrom(s, 1)

\* re.sub(r"\s+", " ", s)
RECURSIVE SubSpacesFrom(_, _)
SubSpacesFrom(s, i) ==
    IF i > Len(s) THEN <<>>
    ELSE IF ~IsSpace(s[i]) THEN <<s[i]>> \o SubSpacesFrom(s, i + 1)
    ELSE IF i > 1 /\ IsSpace(s[i - 1]) THEN SubSpacesFrom(s, i + 1)
    ELSE <<" ">> \o SubSpacesFrom(s, i + 1)

SubSpaces(s) == SubSpacesFrom(s, 1)

\* str.split(): the maximal runs of non-space characters, in order
RECURSIVE SplitFrom(_, _, _)
SplitFrom(s, i, cur) ==
    IF i > Len(s) THEN (IF cur = <<>> THEN <<>> ELSE <<cur>>)
    ELSE IF IsSpace(s[i])
         THEN (IF cur = <<>> THEN <<>> ELSE <<cur>>) \o SplitFrom(s, i + 1, <<>>)
         ELSE SplitFrom(s, i + 1, Append(cur, s[i]))

split(s) == SplitFrom(s, 1, <<>>)

\* " ".join(words)
RECURSIVE join(_)
join(ws) ==
    IF ws = <<>> THEN <<>>
    ELSE IF Len(ws) = 1 THEN ws[1]
    ELSE ws[1] \o <<" ">> \o join(Tail(ws))

\* a < b for Python strings
RECURSIVE StrLess(_, _)
StrLess(a, b) ==
    IF b = <<>> THEN FALSE
    ELSE IF a = <<>> THEN TRUE
    ELSE IF Head(a) = Head(b) THEN StrLess(Tail(a), Tail(b))
    ELSE CharCode(Head(a)) < CharCode(Head(b))

(***************************************************************************)
(* Name Normalizer                                                         *)
(***************************************************************************)
SP == <<" ">>

\* a normalizer without the last two substitutions and the strip
NormalizeUnsquashed(name) ==
    LET s1 == strip(lower(name))
        s2 == SubDotUnderscore(s1)
        s3 == SubFillers(s2)
        s4 == replace(s3, <<"&">>, <<" ","a","n","d"," ">>)
        s5 == replace(s4, <<"m","s"," ">>,
                      <<"m","i","c","r","o","s","o","f","t"," ">>)
    IN  replace(s5, <<"v","s"," ","c","o","d","e">>,
                <<"v","i","s","u","a","l"," ","s","t","u","d","i","o"," ",
                  "c","o","d","e">>)

\* AppLauncher._normalize
_normalize(name) ==
    LET s1 == strip(lower(name))
        s2 == SubDotUnderscore(s1)
        s3 == SubFillers(s2)
        s4 == replace(s3, <<"&">>, <<" ","a","n","d"," ">>)
        s5 == replace(s4, <<"m","s"," ">>,
                      <<"m","i","c","r","o","s","o","f","t"," ">>)
        s6 == replace(s5, <<"v","s"," ","c","o","d","e">>,
                      <<"v","i","s","u","a","l"," ","s","t","u","d","i","o"," ",
                        "c","o","d","e">>)
        s7 == SubNonAlnum(s6)
    IN  strip(SubSpaces(s7))

\* the alias set of AppLauncher._collect_aliases, listed in the order the
\* source adds them, each alias once (the source iterates a set; every alias
\* of one app is bound to the same (display, path), so the order among the
\* aliases of one app does not change any binding)
RECURSIVE Dedup(_)
Dedup(xs) ==
    IF xs = <<>> THEN <<>>
    ELSE LET init == Dedup(SubSeq(xs, 1, Len(xs) - 1))
             x    == xs[Len(xs)]
         IN  IF x \in SeqRange(init) THEN init ELSE Append(init, x)

_collect_aliases(display_name) ==
    LET base == _normalize(display_name)
        microsoft == <<"m","i","c","r","o","s","o","f","t"," ">>
        player    == <<" ","p","l","a","y","e","r">>
    IN  Dedup(<< base,
                 replace(base, SP, <<>>),
                 replace(base, <<" ","a","n","d"," ">>, <<"&">>) >>
              \o (IF StartsWith(base, microsoft)
                  THEN <<replace(base, microsoft, <<"m","s"," ">>)>> ELSE <<>>)
              \o (IF EndsWith(base, player)
                  THEN <<replace(base, player, <<>>)>> ELSE <<>>))

(***************************************************************************)
(* Application Index                                                       *)
(*                                                                         *)
(* An alias map (a Python dict) is the sequence of its entries             *)
(* [alias, display, path] in insertion order, one entry per alias.         *)
(* The file system is a function from search root to                       *)
(* [exists, readable, apps]: apps is the sequence of the bundles that      *)
(* rglob("*.app") yields, in its enumeration order; rglob raises on a root *)
(* that is not readable.  denied says that p.exists() raises on the root.  *)
(***************************************************************************)
\* search locations that do not depend on the platform
SearchLocationsEverywhere(system) ==
    << "/Applications", "/Applications/Utilities", "/System/Applications",
       "/System/Applications/Utilities", "~/Applications" >>

\* AppLauncher._app_search_locations
_app_search_locations(system) ==
    IF system # "Darwin" THEN <<>>
    ELSE << "/Applications", "/Applications/Utilities", "/System/Applications",
            "/System/Applications/Utilities", "~/Applications" >>

Aliases(apps) == {apps[i].alias : i \in 1..Len(apps)}

\* apps[alias] for an alias of the map
Lookup(apps, alias) == apps[CHOOSE i \in 1..Len(apps) : apps[i].alias = alias]

\* apps[alias] = (display, path) in place of setdefault: the last bundle that
\* has an alias takes it
SetDefaultOverwrite(apps, alias, display, path) ==
    IF alias \in Aliases(apps)
    THEN [i \in 1..Len(apps) |->
             IF apps[i].alias = alias
             THEN [alias |-> alias, display |-> display, path |-> path]
             ELSE apps[i]]
    ELSE Append(apps, [alias |-> alias, display |-> display, path |-> path])

\* apps.setdefault(alias, (display, path))
SetDefault(apps, alias, display, path) ==
    IF alias \in Aliases(apps) THEN apps
    ELSE Append(apps, [alias |-> alias, display |-> display, path |-> path])

\* for alias in aliases: apps.setdefault(alias, (display, str(app)))
RECURSIVE AddAliases(_, _, _, _)
AddAliases(apps, aliases, display, path) ==
    IF aliases = <<>> THEN apps
    ELSE AddAliases(SetDefault(apps, Head(aliases), display, path),
                    Tail(aliases), display, path)

\* the bundles of a root taken from the last to the first
RECURSIVE AddBundlesLastFirst(_, _)
AddBundlesLastFirst(apps, bundles) ==
    IF bundles = <<>> THEN apps
    ELSE AddBundlesLastFirst(
             AddAliases(apps, _collect_aliases(bundles[Len(bundles)].display),
                        bundles[Len(bundles)].display, bundles[Len(bundles)].path),
             SubSeq(bundles, 1, Len(bundles) - 1))


\* for app in p.rglob("*.app"): ...
RECURSIVE AddBundles(_, _)
AddBundles(apps, bundles) ==
    IF bundles = <<>> THEN apps
    ELSE AddBundles(AddAliases(apps, _collect_aliases(Head(bundles).display),
                               Head(bundles).display, Head(bundles).path),
                    Tail(bundles))

\* a scan that gives up at the first root whose enumeration raises
RECURSIVE ScanRootsUntilFailure(_, _, _)
ScanRootsUntilFailure(apps, locs, fsys) ==
    IF locs = <<>> THEN apps
    ELSE IF ~fsys[Head(locs)].exists THEN ScanRootsUntilFailure(apps, Tail(locs), fsys)
    ELSE IF ~fsys[Head(locs)].readable THEN apps
    ELSE ScanRootsUntilFailure(AddBundles(apps, fsys[Head(locs)].apps), Tail(locs), fsys)


\* for loc in self._app_search_locations(): a root that does not exist is
\* skipped; a root whose enumeration raises is left by "except: continue"
RECURSIVE ScanRoots(_, _, _)
ScanRoots(apps, locs, fsys) ==
    IF locs = <<>> THEN apps
    ELSE LET root == fsys[Head(locs)]
         IN  IF ~root.exists \/ ~root.readable
             THEN ScanRoots(apps, Tail(locs), fsys)
             ELSE ScanRoots(AddBundles(apps, root.apps), Tail(locs), fsys)


\* the map built by lines 163-181 of _scan_installed_apps
BuildApps(system, fsys) == ScanRoots(<<>>, _app_search_locations(system), fsys)

\* "if not p.exists()" (line 167) is outside the try of line 170: the scan
\* raises when the existence test of a search root raises
ScanRaises(system, fsys) ==
    \E r \in SeqRange(_app_search_locations(system)) : fsys[r].denied

CacheTTL == 60

\* a scan that serves a cached map however old it is
ScanIgnoringAge(launcher, e) ==
    IF launcher._apps_cache # <<>> THEN launcher
    ELSE [_apps_cache |-> e.scan, _apps_cache_time |-> e.now]


\* the cache test of _scan_installed_apps: the cached map is served when it
\* is truthy (not None and not empty) and younger than the TTL
CacheFresh(launcher, t) ==
    launcher._apps_cache # <<>> /\ t - launcher._apps_cache_time < CacheTTL

\* AppLauncher._scan_installed_apps in the environment e: the launcher after
\* the call, whose _apps_cache is the map returned.  e.scan is the map that
\* lines 163-181 build from the file system as it is, BuildApps(system, fsys).
\* A scan that raises leaves line 183 unreached and the cache as it was.
_scan_installed_apps(launcher, e) ==
    IF CacheFresh(launcher, e.now) \/ ScanRaises(e.system, e.fsys) THEN launcher
    ELSE [_apps_cache |-> e.scan, _apps_cache_time |-> e.now]

\* whether the call of _scan_installed_apps raises
ScanFails(launcher, e) == ~CacheFresh(launcher, e.now) /\ ScanRaises(e.system, e.fsys)

\* a scan that fills self._apps_cache in place, root by root
ScanRootInPlace(launcher, apps) == [launcher EXCEPT !._apps_cache = apps]

\* self._apps_cache after a thread has scanned one more root into its local
\* dict (apps = {} of line 163 is a new object): the shared map is untouched
ScanRootShared(launcher, apps) == launcher

\* AppLauncher() : no cache attributes yet (getattr defaults None and 0)
NewLauncher == [_apps_cache |-> <<>>, _apps_cache_time |-> 0]

(***************************************************************************)
(* difflib (standard library), as used by tier 4 of the resolver           *)
(***************************************************************************)
\* length of the longest common run of a from i and b from j, inside
\* a[i..ahi-1] and b[j..bhi-1]
RECURSIVE RunLen(_, _, _, _, _, _)
RunLen(a, i, ahi, b, j, bhi) ==
    IF i < ahi /\ j < bhi /\ a[i] = b[j]
    THEN 1 + RunLen(a, i + 1, ahi, b, j + 1, bhi)
    ELSE 0

\* SequenceMatcher.find_longest_match without junk: the longest block, the
\* one starting earliest in a, and of those the one starting earliest in b
FindLongestMatch(a, alo, ahi, b, blo, bhi) ==
    LET runs == {<<i, j, RunLen(a, i, ahi, b, j, bhi)>> :
                    <<i, j>> \in {p \in (alo..(ahi - 1)) \X (blo..(bhi - 1)) :
                                     a[p[1]] = b[p[2]]}}
    IN  IF runs = {} THEN <<alo, blo, 0>>
        ELSE CHOOSE r \in runs : \A q \in runs :
                 \/ q[3] < r[3]
                 \/ q[3] = r[3] /\ (r[1] < q[1] \/ (r[1] = q[1] /\ r[2] <= q[2]))

\* the number of matched characters of get_matching_blocks
RECURSIVE Matches(_, _, _, _, _, _)
Matches(a, alo, ahi, b, blo, bhi) ==
    LET m == FindLongestMatch(a, alo, ahi, b, blo, bhi)
    IN  IF m[3] = 0 THEN 0
        ELSE m[3] + Matches(a, alo, m[1], b, blo, m[2])
                  + Matches(a, m[1] + m[3], ahi, b, m[2] + m[3], bhi)

\* SequenceMatcher(None, a, b).ratio() = 2.0 * M / T as the fraction <<2M, T>>
Ratio(a, b) ==
    IF Len(a) + Len(b) = 0 THEN <<1, 1>>
    ELSE <<2 * Matches(a, 1, Len(a) + 1, b, 1, Len(b) + 1), Len(a) + Len(b)>>

\* comparisons of fractions with positive denominators
FracLess(x, y) == x[1] * y[2] < y[1] * x[2]

FracEq(x, y) == x[1] * y[2] = y[1] * x[2]

\* the cutoff 0.6 as a fraction
Cutoff == <<3, 5>>

\* difflib.get_close_matches(word, possibilities, n=1, cutoff=0.6): the
\* possibility of the largest (ratio, string) among those with ratio >= cutoff
\* (quick_ratio and real_quick_ratio are upper bounds of ratio and filter
\* nothing that ratio keeps); <<>> when there is none
get_close_matches(word, possibilities) ==
    LET scored == {<<Ratio(x, word), x>> : x \in possibilities}
        Largest(result) ==
            IF result = {} THEN <<>>
            ELSE <<(CHOOSE r \in result : \A q \in result :
                        \/ FracLess(q[1], r[1])
                        \/ (FracEq(q[1], r[1]) /\ (q[2] = r[2] \/ StrLess(q[2], r[2]))))[2]>>
    IN  Largest({r \in scored : ~FracLess(r[1], Cutoff)})

(***************************************************************************)
(* Resolver                                                                *)
(*                                                                         *)
(* A resolution result is [found, display, path, score]; the source's None *)
(* is NoneResult.  A score is the fraction <<numerator, denominator>> in   *)
(* lowest terms (1.0 = <<1, 1>>, 0.95 = <<19, 20>>, 0.7 = <<7, 10>>).      *)
(***************************************************************************)
NoneResult == [found |-> FALSE, display |-> <<>>, path |-> "", score |-> <<0, 1>>]

Result(display, path, score) ==
    [found |-> TRUE, display |-> display, path |-> path, score |-> score]

RECURSIVE Gcd(_, _)
Gcd(a, b) == IF b = 0 THEN a ELSE Gcd(b, a % b)

Fraction(n, d) == IF n = 0 THEN <<0, 1>> ELSE <<n \div Gcd(n, d), d \div Gcd(n, d)>>

\* sum(1 for w in q_words if w in alias)
WordsIn(q_words, alias) ==
    Cardinality({i \in 1..Len(q_words) : Contains(alias, q_words[i])})

Max(a, b) == IF a >= b THEN a ELSE b

\* the score of one alias in tier 3, as <<count, max(1, len(q_words))>>
WordScore(q_words, alias) == <<WordsIn(q_words, alias), Max(1, Len(q_words))>>

\* score >= 0.6
Threshold == <<3, 5>>

\* the indices of the map entries that tier 3 appends to candidates
CandidateEntries(apps, q_words) ==
    {i \in 1..Len(apps) : ~FracLess(WordScore(q_words, apps[i].alias), Threshold)}

\* (score, display, path) < (score', display', path') for two candidates of
\* one query.  Two entries of one map with the same display have the same
\* path (the aliases of a display are all inserted with the first bundle of
\* that display, or not at all), so the comparison never reaches the paths.
CandidateLess(apps, q_words, i, j) ==
    LET si == WordScore(q_words, apps[i].alias)
        sj == WordScore(q_words, apps[j].alias)
    IN  \/ FracLess(si, sj)
        \/ FracEq(si, sj) /\ StrLess(apps[i].display, apps[j].display)

\* candidates.sort(reverse=True); candidates[0]: an entry no other candidate
\* is greater than
BestCandidate(apps, q_words) ==
    LET c == CandidateEntries(apps, q_words)
    IN  CHOOSE i \in c : \A j \in c : ~CandidateLess(apps, q_words, i, j)

Displays(apps) == {apps[i].display : i \in 1..Len(apps)}

\* tier 1 of _resolve_application (lines 193-196)
Tier1(apps, norm_q) ==
    IF norm_q \in Aliases(apps)
    THEN LET a == Lookup(apps, norm_q) IN Result(a.display, a.path, <<1, 1>>)
    ELSE NoneResult

\* tier 2 (lines 198-202)
Tier2(apps, norm_q) ==
    LET key2 == replace(norm_q, SP, <<>>)
    IN  IF key2 \in Aliases(apps)
        THEN LET a == Lookup(apps, key2) IN Result(a.display, a.path, <<19, 20>>)
        ELSE NoneResult

\* tier 3 (lines 204-215)
Tier3(apps, norm_q) ==
    LET q_words == split(norm_q)
    IN  IF apps # <<>> /\ CandidateEntries(apps, q_words) # {}
        THEN LET Best(e, sc) == Result(e.display, e.path, Fraction(sc[1], sc[2]))
             IN  Best(apps[BestCandidate(apps, q_words)],
                      WordScore(q_words, apps[BestCandidate(apps, q_words)].alias))
        ELSE NoneResult

\* tier 4 (lines 217-225): the raw query against the display names
Tier4(apps, query) ==
    LET Entry(e) == Result(e.display, e.path, <<7, 10>>)
        Match(matches) ==
            IF matches # <<>>
            THEN Entry(apps[CHOOSE i \in 1..Len(apps) :
                              /\ apps[i].display = matches[1]
                              /\ \A j \in 1..(i - 1) : apps[j].display # matches[1]])
            ELSE NoneResult
    IN  Match(get_close_matches(query, Displays(apps)))

\* the tiers with the relaxed key tried before the exact alias
ResolveTiersRelaxedFirst(apps, query) ==
    LET First(t1, t2, t3) ==
            IF t2.found THEN t2
            ELSE IF t1.found THEN t1
            ELSE IF t3.found THEN t3
            ELSE Tier4(apps, query)
        Tiers(norm_q) == First(Tier1(apps, norm_q), Tier2(apps, norm_q), Tier3(apps, norm_q))
    IN  Tiers(_normalize(query))

\* the tiers of _resolve_application in the order the source tries them
ResolveTiers(apps, query) ==
    LET First(t1, t2, t3) ==
            IF t1.found THEN t1
            ELSE IF t2.found THEN t2
            ELSE IF t3.found THEN t3
            ELSE Tier4(apps, query)
        Tiers(norm_q) == First(Tier1(apps, norm_q), Tier2(apps, norm_q), Tier3(apps, norm_q))
    IN  Tiers(_normalize(query))

\* a resolver that falls through to the literal query when the map is empty
ResolveLiteralQuery(apps, query) ==
    IF query = <<>> THEN NoneResult
    ELSE IF apps = <<>> THEN Result(query, "", <<7, 10>>)
    ELSE ResolveTiers(apps, query)


\* AppLauncher._resolve_application on the map that _scan_installed_apps
\* returns: "if not query: return None" comes before the scan
_resolve_application(apps, query) ==
    IF query = <<>> THEN NoneResult ELSE ResolveTiers(apps, query)

\* the launcher after _resolve_application(query): an empty query returns
\* before the scan
AfterResolve(launcher, query, e) ==
    IF query = <<>> THEN launcher ELSE _scan_installed_apps(launcher, e)

(***************************************************************************)
(* Process Monitor                                                         *)
(*                                                                         *)
(* The process table is a sequence of [name, gui, denied] in the order     *)
(* psutil.process_iter yields them: gui says that System Events lists the  *)
(* process as an application process, denied that terminate() raises       *)
(* AccessDenied.  osa is the state of osascript: "ok" (it answers),        *)
(* "inconclusive" (it prints no boolean) or "raises" (subprocess.run       *)
(* raises).  psutil_ok = FALSE means psutil.process_iter raises.           *)
(* A boolean result that may also be a raised exception is one of the      *)
(* strings "True", "False", "raise".                                       *)
(***************************************************************************)
\* tn.split()[0] raises IndexError when the target has no word
MatchRaises(target_name) == split(lower(target_name)) = <<>>

\* a match on the whole name only: the target or the target without spaces
MatchesWholeName(proc_name, target_name) ==
    LET tn == lower(target_name)
    IN  proc_name # <<>> /\ proc_name \in {tn, replace(tn, SP, <<>>)}

\* AppLauncher._matches_process_name, for a target with at least one word
_matches_process_name(proc_name, target_name) ==
    LET tn == lower(target_name)
        variants == {tn, replace(tn, SP, <<>>), split(tn)[1]}
    IN  \E v \in variants : v # <<>> /\ Contains(proc_name, v)

\* System Events: exists application process "<name>" (AppleScript compares
\* names ignoring case)
SystemEventsExists(name, procs) ==
    \E i \in 1..Len(procs) : procs[i].gui /\ lower(procs[i].name) = lower(name)

\* the psutil loop of _is_app_running (lines 248-256)
PsutilRunning(name, e) ==
    IF ~e.psutil_ok THEN "raise"
    ELSE IF e.procs = <<>> THEN "False"
    ELSE IF MatchRaises(name) THEN "raise"
    ELSE IF \E i \in 1..Len(e.procs) :
                _matches_process_name(lower(e.procs[i].name), lower(name))
         THEN "True" ELSE "False"

\* AppLauncher._is_app_running in the environment e
_is_app_running(name, e) ==
    IF e.system = "Darwin" /\ e.osa = "ok"
    THEN (IF SystemEventsExists(name, e.procs) THEN "True" ELSE "False")
    ELSE PsutilRunning(name, e)

(***************************************************************************)
(* Lifecycle Controller                                                    *)
(*                                                                         *)
(* A handler is an operator from the launcher, the environment             *)
(* e = [system, fsys, scan, procs, osa, psutil_ok, now] and the outcomes   *)
(* of its OS calls to [ret, cmds, procs, log]: the value returned, the     *)
(* OS commands it issued in order, the process table it leaves and the     *)
(* line it prints.  A command is [cmd, name, path, ok]; ok = FALSE is a    *)
(* call that raised.  Popen returns as soon as the child is spawned: the   *)
(* application it starts is not in the process table yet when the handler  *)
(* returns.                                                                *)
(***************************************************************************)
Cmd(cmd, name, path, ok) == [cmd |-> cmd, name |-> name, path |-> path, ok |-> ok]

\* the apps map a handler's calls of _resolve_application see: the first call
\* scans or serves the cache, and the later calls of the same handler find
\* the same map (nothing else runs in between)
AppsOf(launcher, e) == _scan_installed_apps(launcher, e)._apps_cache

\* resolved[0] if resolved else app_name
TargetName(apps, app_name) ==
    LET Name(resolved) == IF resolved.found THEN resolved.display ELSE app_name
    IN  Name(_resolve_application(apps, app_name))

\* AppLauncher.activate_application: the commands it issues
ActivateCmds(apps, e, app_name) ==
    IF e.system = "Darwin"
    THEN <<Cmd("osascript_activate", TargetName(apps, app_name), "", e.osa # "raises")>>
    ELSE <<>>

LogOpening == <<"O","p","e","n","i","n","g"," ">>

LogFocusing == <<"F","o","c","u","s","i","n","g"," ">>

LogError == <<"E","r","r","o","r"," ">>

\* what open_application returns from its "except Exception" (lines 71-73)
OpenFailed(e, app_name, cmds) ==
    [ret |-> "False", cmds |-> cmds, procs |-> e.procs, log |-> LogError \o app_name]

\* the launch by path alone, without the fallback to the display name
LaunchResolvedNoFallback(e, resolved, app_name, pathOk, nameOk) ==
    LET byPath == Cmd("open_path", resolved.display, resolved.path, pathOk)
    IN  IF pathOk THEN
            [ret |-> "True", cmds |-> <<byPath>>, procs |-> e.procs,
             log |-> LogOpening \o resolved.display]
        ELSE OpenFailed(e, app_name, <<byPath>>)

\* lines 45-54 of open_application: the launch of a resolved application
\* that is not running; pathOk and nameOk say whether the Popen by path and
\* the Popen by name succeed
LaunchResolved(e, resolved, app_name, pathOk, nameOk) ==
    LET byPath == Cmd("open_path", resolved.display, resolved.path, pathOk)
        byName == Cmd("open_a", resolved.display, "", nameOk)
    IN  IF pathOk THEN
            [ret |-> "True", cmds |-> <<byPath>>, procs |-> e.procs,
             log |-> LogOpening \o resolved.display]
        ELSE IF nameOk THEN
            [ret |-> "True", cmds |-> <<byPath, byName>>, procs |-> e.procs,
             log |-> LogOpening \o resolved.display]
        ELSE OpenFailed(e, app_name, <<byPath, byName>>)

\* a resolved application launched without asking whether it is running
OpenResolvedRelaunch(apps, e, resolved, app_name, pathOk, nameOk) ==
    LaunchResolved(e, resolved, app_name, pathOk, nameOk)

\* lines 39-54 of open_application: a resolved application is focused when
\* it is running and launched when it is not
OpenResolved(apps, e, resolved, app_name, pathOk, nameOk) ==
    LET running == _is_app_running(resolved.display, e)
    IN  IF running = "raise" THEN OpenFailed(e, app_name, <<>>)
        ELSE IF running = "True" THEN
            [ret |-> "True",
             cmds |-> <<Cmd("activate_application", resolved.display, "", TRUE)>>
                      \o ActivateCmds(apps, e, resolved.display),
             procs |-> e.procs,
             log |-> LogFocusing \o resolved.display]
        ELSE LaunchResolved(e, resolved, app_name, pathOk, nameOk)

\* Popen([name]) or Popen(["open", "-a", name]) of the name as given (lines
\* 57-59, 62-64 and 67-69)
LaunchByName(e, cmd, name, app_name, nameOk) ==
    IF nameOk THEN
        [ret |-> "True", cmds |-> <<Cmd(cmd, name, "", TRUE)>>,
         procs |-> e.procs, log |-> LogOpening \o app_name]
    ELSE OpenFailed(e, app_name, <<Cmd(cmd, name, "", FALSE)>>)

\* AppLauncher.open_application
open_application(launcher, e, app_name, pathOk, nameOk) ==
    LET apps == AppsOf(launcher, e)
        \* resolved = self._resolve_application(app_name)
        Open(resolved) ==
            IF e.system = "Darwin" THEN
                IF resolved.found
                THEN OpenResolved(apps, e, resolved, app_name, pathOk, nameOk)
                ELSE LaunchByName(e, "open_a", app_name, app_name, nameOk)
            ELSE IF e.system = "Windows" THEN
                LaunchByName(e, "popen", app_name, app_name, nameOk)
            ELSE IF e.system = "Linux" THEN
                LaunchByName(e, "popen", lower(app_name), app_name, nameOk)
            ELSE \* no branch for any other platform: the method falls off its end
                [ret |-> "None", cmds |-> <<>>, procs |-> e.procs, log |-> <<>>]
    IN  Open(_resolve_application(apps, app_name))

\* the processes left when the application named target has quit
WithoutApp(procs, target) ==
    SelectSeq(procs, LAMBDA p : lower(p.name) # lower(target))

\* the process table without its i-th process
RemoveAt(procs, i) == SubSeq(procs, 1, i - 1) \o SubSeq(procs, i + 1, Len(procs))

LogQuit == <<"Q","u","i","t"," ">>

LogNotRunning == <<" ","i","s"," ","n","o","t"," ","c","u","r","r","e","n","t","l","y",
                   " ","r","u","n","n","i","n","g">>

\* the processes the loop of lines 106-114 reaches before it returns: those
\* up to the first one that matches and lets itself be terminated
MatchingAt(procs, target_name, i) ==
    _matches_process_name(lower(procs[i].name), target_name)
\* the last matching process that can be signalled, not the first
LastTerminable(procs, target_name) ==
    {i \in 1..Len(procs) :
        /\ MatchingAt(procs, target_name, i) /\ ~procs[i].denied
        /\ \A j \in (i + 1)..Len(procs) : ~MatchingAt(procs, target_name, j) \/ procs[j].denied}

FirstTerminable(procs, target_name) ==
    {i \in 1..Len(procs) :
        /\ MatchingAt(procs, target_name, i) /\ ~procs[i].denied
        /\ \A j \in 1..(i - 1) : ~MatchingAt(procs, target_name, j) \/ procs[j].denied}

\* the terminate() calls that raised AccessDenied among the first n processes
RECURSIVE DeniedCmds(_, _, _)
DeniedCmds(procs, target_name, n) ==
    IF n = 0 THEN <<>>
    ELSE DeniedCmds(procs, target_name, n - 1)
         \o (IF MatchingAt(procs, target_name, n) /\ procs[n].denied
             THEN <<Cmd("terminate", procs[n].name, "", FALSE)>> ELSE <<>>)

\* a fallback that reports a quit without having found a process
QuitFallbackBlind(e, procs, target_name, app_name, cmds, termWorks) ==
    [ret |-> "True", cmds |-> cmds, procs |-> procs, log |-> LogQuit \o target_name]

\* the generic fallback of quit_application (lines 105-117) on the process
\* table procs, after the commands cmds; termWorks says whether the process
\* signalled has exited when the method returns
QuitFallback(e, procs, target_name, app_name, cmds, termWorks) ==
    LET error == [ret |-> "False", cmds |-> cmds, procs |-> procs,
                  log |-> LogError \o app_name]
    IN  IF ~e.psutil_ok THEN error
        ELSE IF procs # <<>> /\ MatchRaises(target_name) THEN error
        ELSE IF procs # <<>> /\ FirstTerminable(procs, target_name) # {} THEN
            LET i == CHOOSE i \in FirstTerminable(procs, target_name) : TRUE
            IN  [ret |-> "True",
                 cmds |-> cmds \o DeniedCmds(procs, target_name, i - 1)
                          \o <<Cmd("terminate", procs[i].name, "", TRUE)>>,
                 procs |-> IF termWorks THEN RemoveAt(procs, i) ELSE procs,
                 log |-> LogQuit \o target_name]
        ELSE [ret |-> "False",
              cmds |-> cmds \o DeniedCmds(procs, target_name, Len(procs)),
              procs |-> procs,
              log |-> target_name \o LogNotRunning]

\* the terminate loop entered at once, without the quit request
GracefulQuitSkipped(e, target_name, app_name, gracefulWorks, termWorks) ==
    QuitFallback(e, e.procs, target_name, app_name, <<>>, termWorks)

\* lines 93-103 of quit_application and what follows them: the quit request
\* to an application the monitor reports running, the wait, the re-check,
\* and the fallback when the re-check does not find it gone; gracefulWorks
\* says whether the application has quit when the wait is over
GracefulQuit(e, target_name, app_name, gracefulWorks, termWorks) ==
    LET request == <<Cmd("osascript_quit", target_name, "", TRUE),
                     Cmd("sleep", <<>>, "", TRUE)>>
        procs1  == IF gracefulWorks THEN WithoutApp(e.procs, target_name) ELSE e.procs
        recheck == _is_app_running(target_name, [e EXCEPT !.procs = procs1])
    IN  IF e.osa = "raises" THEN
            \* subprocess.run raises: "except Exception: pass"
            QuitFallback(e, e.procs, target_name, app_name,
                         <<Cmd("osascript_quit", target_name, "", FALSE)>>, termWorks)
        ELSE IF recheck = "False" THEN
            [ret |-> "True",
             cmds |-> request \o <<Cmd("recheck_not_running", target_name, "", TRUE)>>,
             procs |-> procs1, log |-> LogQuit \o target_name]
        ELSE
            \* still running, or the re-check raised inside the inner try
            QuitFallback(e, procs1, target_name, app_name,
                         request \o <<Cmd("recheck_running", target_name, "",
                                          recheck = "True")>>,
                         termWorks)

\* AppLauncher.quit_application
quit_application(launcher, e, app_name, gracefulWorks, termWorks) ==
    LET \* target_name = resolved[0] if resolved else app_name
        Quit(target_name) ==
            LET running == IF e.system = "Darwin"
                           THEN _is_app_running(target_name, e) ELSE "False"
            IN  IF running = "raise" THEN
                    [ret |-> "False", cmds |-> <<>>, procs |-> e.procs,
                     log |-> LogError \o app_name]
                ELSE IF running = "True" THEN
                    GracefulQuit(e, target_name, app_name, gracefulWorks, termWorks)
                ELSE QuitFallback(e, e.procs, target_name, app_name, <<>>, termWorks)
    IN  Quit(TargetName(AppsOf(launcher, e), app_name))

(***************************************************************************)
(* Running-application reports                                             *)
(***************************************************************************)
SystemProcesses ==
    << <<"k","e","r","n","e","l","_","t","a","s","k">>,
       <<"l","a","u","n","c","h","d">>,
       <<"W","i","n","d","o","w","S","e","r","v","e","r">>,
       <<"D","o","c","k">>,
       <<"l","o","g","i","n","w","i","n","d","o","w">>,
       <<"s","v","c","h","o","s","t",".","e","x","e">>,
       <<"e","x","p","l","o","r","e","r",".","e","x","e">>,
       <<"w","i","n","l","o","g","o","n",".","e","x","e">>,
       <<"c","s","r","s","s",".","e","x","e">>,
       <<"s","y","s","t","e","m","d">>,
       <<"k","t","h","r","e","a","d","d">>,
       <<"k","s","o","f","t","i","r","q","d">> >>

\* AppLauncher._is_system_process (equality is a case of containment)
_is_system_process(app_name) ==
    \E i \in 1..Len(SystemProcesses) :
        Contains(lower(app_name), lower(SystemProcesses[i]))

\* sorted(names), by insertion
RECURSIVE Sorted(_)
Sorted(names) ==
    IF names = <<>> THEN <<>>
    ELSE LET rest == Sorted(Tail(names))
             x    == Head(names)
             k    == Cardinality({i \in 1..Len(rest) : StrLess(rest[i], x)})
         IN  SubSeq(rest, 1, k) \o <<x>> \o SubSeq(rest, k + 1, Len(rest))

\* the names in order, without those whose lowercase form came before
RECURSIVE UniqueLower(_)
UniqueLower(names) ==
    IF names = <<>> THEN <<>>
    ELSE LET init == UniqueLower(SubSeq(names, 1, Len(names) - 1))
             x    == names[Len(names)]
         IN  IF \E i \in 1..Len(init) : lower(init[i]) = lower(x)
             THEN init ELSE Append(init, x)

Banned ==
    << <<"D","o","c","k">>,
       <<"W","i","n","d","o","w","S","e","r","v","e","r">>,
       <<"l","o","g","i","n","w","i","n","d","o","w">> >>

NamesOf(procs) == [i \in 1..Len(procs) |-> procs[i].name]

\* AppLauncher._get_running_apps_macos: the application processes System
\* Events lists (names without commas), [] when osascript prints nothing or
\* raises
_get_running_apps_macos(e) ==
    IF e.osa # "ok" THEN <<>>
    ELSE SelectSeq(UniqueLower(SelectSeq(NamesOf(SelectSeq(e.procs, LAMBDA p : p.gui)),
                                         LAMBDA n : strip(n) # <<>>)),
                   LAMBDA n : n \notin SeqRange(Banned))

\* no call of speak_running_apps yet.  After a call, running is the list it
\* returned and procs the process table it saw; starts counts the processes
\* started since the beginning.
NotListed == [called |-> FALSE, running |-> <<>>, procs |-> <<>>, starts |-> 0]

\* a speak_running_apps that keeps its first answer and serves it again
SpeakRunningAppsCached(e) ==
    IF e.listed.called THEN e.listed.running
    ELSE LET apps == IF e.system = "Darwin" THEN _get_running_apps_macos(e) ELSE <<>>
         IN  IF apps # <<>> THEN Sorted(apps)
             ELSE IF ~e.psutil_ok THEN <<>>
             ELSE Sorted(SelectSeq(Dedup(SelectSeq(NamesOf(e.procs), LAMBDA n : n # <<>>)),
                                   LAMBDA n : ~_is_system_process(n)))

\* AppLauncher.speak_running_apps
speak_running_apps(e) ==
    LET apps == IF e.system = "Darwin" THEN _get_running_apps_macos(e) ELSE <<>>
    IN  IF apps # <<>> THEN Sorted(apps)
        ELSE IF ~e.psutil_ok THEN <<>>
        ELSE Sorted(SelectSeq(Dedup(SelectSeq(NamesOf(e.procs), LAMBDA n : n # <<>>)),
                              LAMBDA n : ~_is_system_process(n)))

\* str(n) for n >= 0
RECURSIVE Str(_)
Str(n) == IF n < 10 THEN <<DigitChars[n + 1]>> ELSE Str(n \div 10) \o <<DigitChars[(n % 10) + 1]>>

\* AppLauncher.get_running_apps_summary: its 'count'
get_running_apps_summary(e) ==
    [success |-> TRUE,
     count |-> Len(SelectSeq(speak_running_apps(e), LAMBDA n : ~_is_system_process(n)))]

\* ", ".join(names)
RECURSIVE JoinComma(_)
JoinComma(names) ==
    IF names = <<>> THEN <<>>
    ELSE IF Len(names) = 1 THEN names[1]
    ELSE names[1] \o <<",", " ">> \o JoinComma(Tail(names))

MsgNoAppsOpen == <<"s","i","r",","," ","y","o","u"," ","c","u","r","r","e",
    "n","t","l","y"," ","h","a","v","e"," ","n","o"," ","a","p","p","l","i",
    "c","a","t","i","o","n","s"," ","o","p","e","n">>

MsgYouCurrentlyHave == <<"s","i","r"," ","y","o","u"," ","c","u","r","r","e",
    "n","t","l","y"," ","h","a","v","e"," ">>

MsgOpen == <<" ","o","p","e","n">>

MsgAnd == <<" ","a","n","d"," ">>

\* AppLauncher.running_apps_list_sentence
running_apps_list_sentence(e) ==
    LET apps_text(unique_apps) ==
            IF Len(unique_apps) = 1 THEN unique_apps[1]
            ELSE JoinComma(SubSeq(unique_apps, 1, Len(unique_apps) - 1))
                 \o MsgAnd \o unique_apps[Len(unique_apps)]
        Sentence(apps) ==
            IF apps = <<>> THEN MsgNoAppsOpen
            ELSE MsgYouCurrentlyHave \o apps_text(UniqueLower(apps)) \o MsgOpen
    IN  Sentence(SelectSeq(speak_running_apps(e), LAMBDA n : ~_is_system_process(n)))

MsgNotSureWhich == <<"I","'","m"," ","n","o","t"," ","s","u","r","e"," ","w",
    "h","i","c","h"," ","a","p","p","l","i","c","a","t","i","o","n"," ","y",
    "o","u"," ","m","e","a","n",","," ","s","i","r",".">>

MsgYesSir == <<"Y","e","s"," ","s","i","r",","," ">>

MsgNoSir == <<"N","o"," ","s","i","r",","," ">>

MsgIsCurrentlyRunning == <<" ","i","s"," ","c","u","r","r","e","n","t","l",
    "y"," ","r","u","n","n","i","n","g",".">>

MsgIsNotCurrentlyRunning == <<" ","i","s"," ","n","o","t"," ","c","u","r","r",
    "e","n","t","l","y"," ","r","u","n","n","i","n","g",".">>

Unknown == <<"u","n","k","n","o","w","n">>

\* AppLauncher.check_app_running_message: [raised, app_name, message]
check_app_running_message(apps, e, app_phrase) ==
    LET \* target = resolved[0] if resolved else app_phrase
        Check(target) ==
            LET is_running == _is_app_running(target, e)
            IN  IF is_running = "raise" THEN
                    [raised |-> TRUE, app_name |-> <<>>, message |-> <<>>]
                ELSE IF is_running = "True" THEN
                    [raised |-> FALSE, app_name |-> target,
                     message |-> MsgYesSir \o target \o MsgIsCurrentlyRunning]
                ELSE
                    [raised |-> FALSE, app_name |-> target,
                     message |-> MsgNoSir \o target \o MsgIsNotCurrentlyRunning]
    IN  IF app_phrase = <<>> THEN
            [raised |-> FALSE, app_name |-> Unknown, message |-> MsgNotSureWhich]
        ELSE Check(TargetName(apps, app_phrase))


(***************************************************************************)
(* Voice command entry points: launch_app_by_voice and quit_app_by_voice   *)
(*                                                                         *)
(* gpt is the answer of gpt_handler.interpret_app_command: [kind, app]     *)
(* with kind "absent" (no handler given), "raises", "open", "quit" or      *)
(* "other" (any other action).  A handler returns                          *)
(* [raised, success, app_name, message, cmds, procs]: raised = TRUE is an  *)
(* exception leaving the function; success is "True", "False" or "None".   *)
(***************************************************************************)
\* the alternatives of fillers_pattern, in the order written
VoiceFillers ==
    << <<"c","o","u","l","d"," ","y","o","u">>,
       <<"w","o","u","l","d"," ","y","o","u">>,
       <<"c","a","n"," ","y","o","u">>,
       <<"p","l","e","a","s","e">>,
       <<"b","e"," ","a"," ","d","e","a","r"," ","a","n","d">>,
       <<"g","o"," ","a","h","e","a","d"," ","a","n","d">>,
       <<"w","o","u","l","d"," ","y","o","u"," ","m","i","n","d">>,
       <<"d","o"," ","m","e"," ","a"," ","f","a","v","o","u","r"," ","a","n","d">>,
       <<"d","o"," ","m","e"," ","a"," ","f","a","v","o","r"," ","a","n","d">>,
       <<"f","o","r"," ","m","e">>,
       <<"f","o","r"," ","m","y"," ","d","e","s","k","p","i","l","o","t">>,
       <<"d","e","s","k","p","i","l","o","t">>,
       <<"t","h","e">>,
       <<"m","y">>,
       <<"a">>,
       <<"a","n">>,
       <<"a","p","p">>,
       <<"a","p","p","l","i","c","a","t","i","o","n">> >>

\* cleaned = re.sub(fillers_pattern, " ", lower); re.sub(r"\s+", " ", ...).strip()
Cleaned(lowered) == strip(SubSpaces(SubAltsFrom(lowered, 1, VoiceFillers)))

OpenTriggers ==
    << <<"o","p","e","n">>,
       <<"l","a","u","n","c","h">>,
       <<"s","t","a","r","t">>,
       <<"r","u","n">> >>

OpenPhraseTriggers ==
    << <<"b","r","i","n","g"," ","u","p">>,
       <<"p","u","l","l"," ","u","p">>,
       <<"f","i","r","e"," ","u","p">>,
       <<"b","o","o","t"," ","u","p">>,
       <<"p","o","p"," ","o","p","e","n">> >>

QuitTriggers ==
    << <<"q","u","i","t">>,
       <<"c","l","o","s","e">>,
       <<"s","t","o","p">>,
       <<"e","x","i","t">>,
       <<"k","i","l","l">> >>

QuitPhraseTriggers ==
    << <<"s","h","u","t"," ","d","o","w","n">>,
       <<"c","l","o","s","e"," ","o","u","t">>,
       <<"e","n","d">>,
       <<"t","e","r","m","i","n","a","t","e">>,
       <<"d","i","s","m","i","s","s">> >>

\* the positions where r"\b(t1|t2|...)\s+(.+)$" matches: a trigger after a
\* word boundary, then whitespace, then at least one more character
TriggerAt(s, triggers) ==
    {i \in 1..Len(s) : \E k \in 1..Len(triggers) :
        /\ WordBoundary(s, i)
        /\ StartsAt(s, i, triggers[k])
        /\ i + Len(triggers[k]) + 1 <= Len(s)
        /\ IsSpace(s[i + Len(triggers[k])])}

\* m.group(2).strip() of the leftmost match of re.search
TriggerPhrase(s, triggers) ==
    LET Group2(i, k) == strip(SubSeq(s, i + Len(triggers[k]), Len(s)))
        At(i) == Group2(i, CHOOSE k \in 1..Len(triggers) :
                               /\ StartsAt(s, i, triggers[k])
                               /\ i + Len(triggers[k]) + 1 <= Len(s)
                               /\ IsSpace(s[i + Len(triggers[k])]))
    IN  At(CHOOSE i \in TriggerAt(s, triggers) : \A j \in TriggerAt(s, triggers) : i <= j)

\* the "simple token fallback": the words after the first trigger, taken in
\* the order of the trigger list, that is a word of the text and not its last
RECURSIVE IndexOf(_, _, _)
IndexOf(ws, w, i) ==
    IF i > Len(ws) THEN 0 ELSE IF ws[i] = w THEN i ELSE IndexOf(ws, w, i + 1)

RECURSIVE TokenPhrase(_, _, _)
TokenPhrase(ws, triggers, k) ==
    IF k > Len(triggers) THEN <<>>
    ELSE LET idx == IndexOf(ws, triggers[k], 1)
         IN  IF idx # 0 /\ idx < Len(ws)
             THEN join(SubSeq(ws, idx + 1, Len(ws)))
             ELSE TokenPhrase(ws, triggers, k + 1)

\* the basic extraction of the app phrase (lines 675-705 and 776-806)
BasicPhrase(lowered, triggers, phraseTriggers) ==
    LET byPattern(cleaned) ==
            IF TriggerAt(cleaned, triggers) # {} THEN TriggerPhrase(cleaned, triggers)
            ELSE IF TriggerAt(cleaned, phraseTriggers) # {}
                 THEN TriggerPhrase(cleaned, phraseTriggers)
            ELSE <<>>
        byToken(cleaned, app_phrase) ==
            IF app_phrase # <<>> THEN app_phrase
            ELSE TokenPhrase(split(cleaned), triggers, 1)
        Final(cleaned, app_phrase) ==
            IF app_phrase # <<>> THEN app_phrase ELSE strip(cleaned)
        Extract(cleaned) == Final(cleaned, byToken(cleaned, byPattern(cleaned)))
    IN  Extract(Cleaned(lowered))

\* the app phrase of a command: the interpretation of the GPT handler when
\* it names the wanted action and an app, else the basic extraction
AppPhrase(command, gpt, action, triggers, phraseTriggers) ==
    IF gpt.kind = action /\ gpt.app # <<>> /\ gpt.app # <<"n","o","n","e">>
    THEN gpt.app
    ELSE BasicPhrase(lower(strip(command)), triggers, phraseTriggers)

\* the first position from i on that holds no whitespace
RECURSIVE SkipSpaces(_, _)
SkipSpaces(s, i) == IF i <= Len(s) /\ IsSpace(s[i]) THEN SkipSpaces(s, i + 1) ELSE i

\* "." of the re module matches every character of s[a..b]
NoNewline(s, a, b) == \A x \in a..b : s[x] # "\n"

\* (open|running)\??\s*$ matches s from position i
StateWordAt(s, i) ==
    \E w \in {<<"o","p","e","n">>, <<"r","u","n","n","i","n","g">>} :
        /\ StartsAt(s, i, w)
        /\ LET j == i + Len(w)
               k == IF j <= Len(s) /\ s[j] = "?" THEN j + 1 ELSE j
           IN  SkipSpaces(s, k) > Len(s)

\* (?:currently\s+)?(open|running)\??\s*$ matches s from position i
StateTailAt(s, i) ==
    LET currently == <<"c","u","r","r","e","n","t","l","y">>
        j == i + Len(currently)
    IN  \/ StateWordAt(s, i)
        \/ /\ StartsAt(s, i, currently)
           /\ j <= Len(s) /\ IsSpace(s[j])
           /\ StateWordAt(s, SkipSpaces(s, j))

\* re.search(r"^\s*is\s+(.+?)\s+(?:currently\s+)?(open|running)\??\s*$", s):
\* [found, phrase], phrase being m.group(1).strip()
IsRunningQuery(s) ==
    LET p == SkipSpaces(s, 1) + 2
        q == SkipSpaces(s, p)
        \* the ends of group 1 when \s+ takes the whole run of spaces
        ends == {x \in (q + 1)..Len(s) : IsSpace(s[x]) /\ NoNewline(s, q, x - 1)
                                         /\ StateTailAt(s, SkipSpaces(s, x))}
    IN  IF ~(StartsAt(s, p - 2, <<"i","s">>) /\ p <= Len(s) /\ IsSpace(s[p]))
        THEN [found |-> FALSE, phrase |-> <<>>]
        ELSE IF ends # {}
        THEN [found |-> TRUE,
              phrase |-> strip(SubSeq(s, q, (CHOOSE x \in ends : \A y \in ends : x <= y) - 1))]
        \* group 1 is whitespace given back by the first \s+
        ELSE IF (\E x \in (p + 1)..(q - 2) : s[x] # "\n") /\ StateTailAt(s, q)
        THEN [found |-> TRUE, phrase |-> <<>>]
        ELSE [found |-> FALSE, phrase |-> <<>>]

AppWords ==
    << <<"a","p","p">>,
       <<"a","p","p","l","i","c","a","t","i","o","n">>,
       <<"a","p","p","l","i","c","a","t","i","o","n","s">>,
       <<"a","p","p","s">> >>

OpenWords ==
    << <<"o","p","e","n">>,
       <<"r","u","n","n","i","n","g">>,
       <<"c","u","r","r","e","n","t","l","y"," ","o","p","e","n">> >>

list_triggers ==
    << <<"w","h","i","c","h"," ","a","p","p","s">>,
       <<"w","h","i","c","h"," ","a","p","p","l","i","c","a","t","i","o","n","s">>,
       <<"w","h","a","t"," ","a","p","p","s">>,
       <<"w","h","a","t"," ","a","p","p","l","i","c","a","t","i","o","n","s">>,
       <<"w","h","a","t","'","s"," ","o","p","e","n">>,
       <<"w","h","a","t"," ","i","s"," ","o","p","e","n">>,
       <<"w","h","a","t","'","s"," ","r","u","n","n","i","n","g">>,
       <<"w","h","a","t"," ","i","s"," ","r","u","n","n","i","n","g">>,
       <<"s","h","o","w"," ","a","p","p","s">>,
       <<"l","i","s","t"," ","a","p","p","s">>,
       <<"r","u","n","n","i","n","g"," ","a","p","p","s">>,
       <<"r","u","n","n","i","n","g"," ","a","p","p","l","i","c","a","t","i","o","n","s">>,
       <<"c","u","r","r","e","n","t","l","y"," ","r","u","n","n","i","n","g"," ","a","p","p","s">>,
       <<"r","u","n","d","o","w","n">> >>

HowMany == <<"h","o","w"," ","m","a","n","y">>

RunningApps == <<"r","u","n","n","i","n","g"," ","a","p","p","s">>

MsgYouHave == <<"Y","o","u"," ","h","a","v","e"," ">>

MsgApplicationsOpenSir == <<" ","a","p","p","l","i","c","a","t","i","o","n",
    "s"," ","o","p","e","n"," ","s","i","r">>

ContainsAny(s, pats) == \E i \in 1..Len(pats) : Contains(s, pats[i])

\* which branch of the running-apps guard (lines 623-659) the lowered text
\* takes: "is", "count", "list" or "none"
GuardKind(lowered) ==
    IF IsRunningQuery(lowered).found THEN "is"
    ELSE IF Contains(lowered, HowMany) /\ ContainsAny(lowered, AppWords)
            /\ ContainsAny(lowered, OpenWords) THEN "count"
    ELSE IF ContainsAny(lowered, list_triggers) THEN "list"
    ELSE "none"


MsgUnknownOpen == <<"I","'","m"," ","n","o","t"," ","s","u","r","e"," ","w",
    "h","i","c","h"," ","a","p","p","l","i","c","a","t","i","o","n"," ","y",
    "o","u"," ","w","a","n","t"," ","t","o"," ","o","p","e","n",","," ","s",
    "i","r","."," ","C","o","u","l","d"," ","y","o","u"," ","p","l","e","a",
    "s","e"," ","b","e"," ","m","o","r","e"," ","s","p","e","c","i","f","i",
    "c","?">>

MsgSir == <<"S","i","r",","," ">>

MsgAlreadyRunning == <<" ","i","s"," ","a","l","r","e","a","d","y"," ","r",
    "u","n","n","i","n","g",","," ","b","r","i","n","g","i","n","g"," ","i",
    "t"," ","i","n","t","o"," ","f","o","c","u","s"," ","n","o","w",".",".",
    ".">>

MsgOpening == <<"O","p","e","n","i","n","g"," ">>

MsgForYou == <<" ","f","o","r"," ","y","o","u",","," ","s","i","r",".">>

MsgSorryOpen == <<"S","o","r","r","y"," ","s","i","r",","," ","I"," ","c","o",
    "u","l","d","n","'","t"," ","o","p","e","n"," ">>

MsgCheckInstalled == <<"."," ","P","l","e","a","s","e"," ","c","h","e","c",
    "k"," ","i","f"," ","i","t","'","s"," ","i","n","s","t","a","l","l","e",
    "d",".">>

MsgCouldntFind == <<"I"," ","c","o","u","l","d","n","'","t"," ","f","i","n",
    "d"," ">>

MsgInstalledOn == <<" ","i","n","s","t","a","l","l","e","d"," ","o","n"," ",
    "y","o","u","r"," ","o","p","e","r","a","t","i","n","g"," ","s","y","s",
    "t","e","m",","," ","s","i","r",".">>

MsgDot == <<".">>

MsgUnknownQuit == <<"I","'","m"," ","n","o","t"," ","s","u","r","e"," ","w",
    "h","i","c","h"," ","a","p","p","l","i","c","a","t","i","o","n"," ","y",
    "o","u"," ","w","a","n","t"," ","t","o"," ","q","u","i","t",","," ","s",
    "i","r","."," ","C","o","u","l","d"," ","y","o","u"," ","p","l","e","a",
    "s","e"," ","s","p","e","c","i","f","y","?">>

MsgIsntRunning == <<" ","i","s","n","'","t"," ","c","u","r","r","e","n","t",
    "l","y"," ","r","u","n","n","i","n","g",".">>

MsgIveQuit == <<"I","'","v","e"," ","q","u","i","t"," ">>

MsgDoesntAppear == <<" ","d","o","e","s","n","'","t"," ","a","p","p","e","a",
    "r"," ","t","o"," ","b","e"," ","r","u","n","n","i","n","g"," ","a","t",
    " ","t","h","e"," ","m","o","m","e","n","t",".">>

\* what a voice entry point returns, with the commands it issued and the
\* process table it leaves; handled says that the running-apps guard answered
Outcome(success, app_name, message, cmds, procs) ==
    [raised |-> FALSE, handled |-> FALSE, success |-> success, app_name |-> app_name,
     message |-> message, cmds |-> cmds, procs |-> procs]

\* an exception that leaves the function: nothing is returned
Raised(cmds, procs) ==
    [raised |-> TRUE, handled |-> FALSE, success |-> "None", app_name |-> <<>>,
     message |-> <<>>, cmds |-> cmds, procs |-> procs]

\* the result of launcher.open_application(name) as an outcome (lines
\* 724-731 and 741-747)
OpenOutcome(opened, name, failure) ==
    Outcome(opened.ret, name,
            IF opened.ret = "True" THEN MsgOpening \o name \o MsgForYou
            ELSE MsgSorryOpen \o name \o failure,
            opened.cmds, opened.procs)

\* the phrase that did not resolve handed to open_application on every
\* platform
LaunchUnresolvedAnyway(e, launcher, app_phrase, pathOk, nameOk) ==
    OpenOutcome(open_application(launcher, e, app_phrase, pathOk, nameOk),
                app_phrase, MsgDot)

\* lines 733-747 of launch_app_by_voice: the app phrase did not resolve
LaunchUnresolved(e, launcher, app_phrase, pathOk, nameOk) ==
    IF e.system = "Darwin" THEN
        Outcome("False", app_phrase,
                MsgCouldntFind \o app_phrase \o MsgInstalledOn, <<>>, e.procs)
    ELSE OpenOutcome(open_application(launcher, e, app_phrase, pathOk, nameOk),
                     app_phrase, MsgDot)

\* lines 707-747 of launch_app_by_voice, for the app phrase extracted; the
\* function works on a launcher of its own (line 617)
LaunchPhrase(e, app_phrase, pathOk, nameOk) ==
    LET apps     == AppsOf(NewLauncher, e)
        launcher == _scan_installed_apps(NewLauncher, e)
        \* lines 717-731: display_name, _ = resolved[0], resolved[1]
        Found(display_name) ==
            LET running == IF e.system = "Darwin"
                           THEN _is_app_running(display_name, e) ELSE "False"
            IN  IF running = "raise" THEN Raised(<<>>, e.procs)
                ELSE IF running = "True" THEN
                    Outcome("True", display_name,
                            MsgSir \o display_name \o MsgAlreadyRunning,
                            <<Cmd("activate_application", display_name, "", TRUE)>>
                            \o ActivateCmds(apps, e, display_name),
                            e.procs)
                ELSE OpenOutcome(open_application(launcher, e, display_name, pathOk, nameOk),
                                 display_name, MsgCheckInstalled)
        \* resolved = launcher._resolve_application(app_phrase)
        Launch(resolved) ==
            IF resolved.found THEN Found(resolved.display)
            ELSE LaunchUnresolved(e, launcher, app_phrase, pathOk, nameOk)
    IN  IF app_phrase = <<>> THEN
            Outcome("False", Unknown, MsgUnknownOpen, <<>>, e.procs)
        ELSE Launch(_resolve_application(apps, app_phrase))

\* what launch_app_by_voice reads off the command before it looks at the
\* machine: the branch of the guard, the phrase of an "is ... running" query
\* and the app phrase of lines 664-705
LaunchParse(command, gpt) ==
    LET lowered == lower(strip(command))
    IN  [kind |-> GuardKind(lowered),
         query |-> IsRunningQuery(lowered).phrase,
         app_phrase |-> AppPhrase(command, gpt, "open", OpenTriggers, OpenPhraseTriggers)]

\* the running-apps guard (lines 621-662): [handled, outcome]; an exception
\* inside it is printed and the function goes on
RunningAppsGuard(e, parse) ==
    LET none  == [handled |-> FALSE, outcome |-> Raised(<<>>, e.procs)]
        done(app_name, message) ==
            [handled |-> TRUE,
             outcome |-> [Outcome("True", app_name, message, <<>>, e.procs)
                              EXCEPT !.handled = TRUE]]
        answer(check) ==
            IF check.raised THEN none ELSE done(check.app_name, check.message)
    IN  IF parse.kind = "is" THEN
            answer(check_app_running_message(AppsOf(NewLauncher, e), e, parse.query))
        ELSE IF parse.kind = "count" THEN
            done(RunningApps,
                 MsgYouHave \o Str(get_running_apps_summary(e).count) \o MsgApplicationsOpenSir)
        ELSE IF parse.kind = "list" THEN
            done(RunningApps, running_apps_list_sentence(e))
        ELSE none

\* launch_app_by_voice from line 621 on, for the command parsed
LaunchParsed(e, parse, pathOk, nameOk) ==
    LET After(guard) ==
            IF guard.handled THEN guard.outcome
            ELSE LaunchPhrase(e, parse.app_phrase, pathOk, nameOk)
    IN  After(RunningAppsGuard(e, parse))

\* launch_app_by_voice(command, gpt_handler)
launch_app_by_voice(e, command, gpt, pathOk, nameOk) ==
    LaunchParsed(e, LaunchParse(command, gpt), pathOk, nameOk)

\* lines 808-832 of quit_app_by_voice, for the app phrase extracted
QuitPhrase(e, app_phrase, gracefulWorks, termWorks) ==
    LET apps     == AppsOf(NewLauncher, e)
        launcher == _scan_installed_apps(NewLauncher, e)
        \* lines 826-832: success = launcher.quit_application(target_name)
        Report(target_name, quit) ==
            Outcome(quit.ret, target_name,
                    IF quit.ret = "True"
                    THEN MsgIveQuit \o target_name \o MsgForYou
                    ELSE MsgSir \o target_name \o MsgDoesntAppear,
                    quit.cmds, quit.procs)
        \* target_name = resolved[0] if resolved else app_phrase
        Quit(target_name) ==
            LET running == IF e.system = "Darwin"
                           THEN _is_app_running(target_name, e) ELSE "True"
            IN  IF running = "raise" THEN Raised(<<>>, e.procs)
                ELSE IF running = "False" THEN
                    Outcome("False", target_name, MsgSir \o target_name \o MsgIsntRunning,
                            <<>>, e.procs)
                ELSE Report(target_name,
                            quit_application(launcher, e, target_name,
                                             gracefulWorks, termWorks))
    IN  IF app_phrase = <<>> THEN
            Outcome("False", Unknown, MsgUnknownQuit, <<>>, e.procs)
        ELSE Quit(TargetName(apps, app_phrase))

\* the app phrase quit_app_by_voice reads off the command (lines 765-806)
QuitParse(command, gpt) ==
    AppPhrase(command, gpt, "quit", QuitTriggers, QuitPhraseTriggers)

\* quit_app_by_voice(command, gpt_handler)
quit_app_by_voice(e, command, gpt, gracefulWorks, termWorks) ==
    QuitPhrase(e, QuitParse(command, gpt), gracefulWorks, termWorks)

(***************************************************************************)
(* The environment the engine runs in, and the inputs of the model         *)
(***************************************************************************)
N_VLC == <<"V","L","C">>

N_VLCPlayer == <<"V","L","C"," ","P","l","a","y","e","r">>

N_Safari == <<"S","a","f","a","r","i">>

N_Notes == <<"N","o","t","e","s">>

N_AndroidStudio == <<"A","n","d","r","o","i","d"," ","S","t","u","d","i","o">>

N_XcodeStudio == <<"X","c","o","d","e"," ","S","t","u","d","i","o">>

N_VLCHelper == <<"V","L","C"," ","H","e","l","p","e","r">>

Bundle(display, path) == [display |-> display, path |-> path]

Root(apps) == [exists |-> TRUE, readable |-> TRUE, apps |-> apps, denied |-> FALSE]

NoRoot == [exists |-> FALSE, readable |-> TRUE, apps |-> <<>>, denied |-> FALSE]

Unreadable(apps) == [exists |-> TRUE, readable |-> FALSE, apps |-> apps, denied |-> FALSE]

\* a root below a directory that cannot be searched: Path.exists() raises
\* PermissionError (stat fails with EACCES, which pathlib does not swallow)
Denied == [exists |-> FALSE, readable |-> FALSE, apps |-> <<>>, denied |-> TRUE]

AllRoots == {"/Applications", "/Applications/Utilities", "/System/Applications",
             "/System/Applications/Utilities", "~/Applications"}

\* a file system with the given roots, every other search root missing
Disk(roots) == [r \in AllRoots |-> IF r \in DOMAIN roots THEN roots[r] ELSE NoRoot]


\* the file systems of the model: bundles in the order rglob yields them
Disks ==
    << Disk([r \in {"/Applications"} |->
                Root(<<Bundle(N_VLCPlayer, "/Applications/VLC Player.app"),
                       Bundle(N_VLC, "/Applications/VLC.app"),
                       Bundle(N_Safari, "/Applications/Safari.app")>>)]),
       Disk([r \in {"/Applications", "/System/Applications", "~/Applications"} |->
                IF r = "/Applications"
                THEN Root(<<Bundle(N_AndroidStudio, "/Applications/Android Studio.app"),
                            Bundle(N_XcodeStudio, "/Applications/Xcode Studio.app")>>)
                ELSE IF r = "/System/Applications"
                THEN Unreadable(<<Bundle(N_Safari, "/System/Applications/Safari.app")>>)
                ELSE Root(<<Bundle(N_Notes, "~/Applications/Notes.app"),
                            Bundle(N_VLC, "~/Applications/VLC.app")>>)]),
       Disk([r \in {"/Applications", "~/Applications"} |->
                IF r = "/Applications"
                THEN Root(<<Bundle(N_XcodeStudio, "/Applications/Xcode Studio.app"),
                            Bundle(N_AndroidStudio, "/Applications/Android Studio.app"),
                            Bundle(N_VLC, "/Applications/VLC.app")>>)
                ELSE Root(<<Bundle(N_VLCPlayer, "~/Applications/VLC Player.app"),
                            Bundle(N_VLC, "~/Applications/VLC.app")>>)]),
       Disk([r \in {"/Applications"} |-> Unreadable(<<>>)]) >>

Process(name, gui, denied) == [name |-> name, gui |-> gui, denied |-> denied]

\* the process tables the model starts from
ProcessTables ==
    << <<>>,
       <<Process(N_VLC, TRUE, FALSE), Process(N_Safari, TRUE, FALSE)>>,
       <<Process(N_VLCPlayer, TRUE, TRUE)>>,
       <<Process(N_VLCHelper, FALSE, FALSE), Process(N_VLCPlayer, TRUE, FALSE)>>,
       <<Process(N_VLCHelper, FALSE, TRUE)>> >>

Systems == {"Darwin", "Windows", "Linux", "FreeBSD"}

QuerySeq ==
    << <<"v","l","c">>,
       <<"V","L","C"," ","P","l","a","y","e","r">>,
       <<"S","a","f","a","r","i">>,
       <<"V"," ","L"," ","C">>,
       <<"s","t","u","d","i","o">>,
       <<"a","n","d","r","o","i","d"," ","s","t","u","d","i","o"," ","p","r","o">>,
       <<"s","f","a","r","i">>,
       <<"z","z","z">>,
       <<>>,
       <<" ">> >>

Queries == SeqRange(QuerySeq)

LaunchCommandSeq ==
    << <<"o","p","e","n"," ","v","l","c">>,
       <<"p","l","e","a","s","e"," ","l","a","u","n","c","h"," ","t","h","e"," ","S","a","f","a","r","i"," ","a","p","p">>,
       <<"p","o","p"," ","o","p","e","n"," ","s","t","u","d","i","o">>,
       <<"o","p","e","n"," ","z","z","z">>,
       <<"t","h","e">>,
       <<"i","s"," ","v","l","c"," ","r","u","n","n","i","n","g">>,
       <<"h","o","w"," ","m","a","n","y"," ","a","p","p","s"," ","a","r","e"," ","o","p","e","n">>,
       <<"l","i","s","t"," ","a","p","p","s">> >>

LaunchCommands == SeqRange(LaunchCommandSeq)

QuitCommandSeq ==
    << <<"q","u","i","t"," ","v","l","c">>,
       <<"c","l","o","s","e"," ","t","h","e"," ","V","L","C"," ","P","l","a","y","e","r"," ","a","p","p">>,
       <<"s","h","u","t"," ","d","o","w","n"," ","z","z","z">>,
       <<"a">> >>

QuitCommands == SeqRange(QuitCommandSeq)

\* the answers of the GPT handler
Gpt(kind, app) == [kind |-> kind, app |-> app]

GptAnswers == {Gpt("absent", <<>>), Gpt("raises", <<>>),
               Gpt("open", N_VLCPlayer), Gpt("quit", N_VLCPlayer)}

\* the voice commands of the model with each answer of the GPT handler,
\* parsed once
LaunchInputs ==
    {[command |-> c, gpt |-> g, parse |-> LaunchParse(c, g)] :
        c \in LaunchCommands, g \in GptAnswers}

QuitInputs ==
    {[command |-> c, gpt |-> g, parse |-> QuitParse(c, g)] :
        c \in QuitCommands, g \in GptAnswers}

(***************************************************************************)
(* State                                                                   *)
(***************************************************************************)
VARIABLES
    system,     \* platform.system()
    fsys,       \* the application directories
    scan,       \* the alias map a scan of fsys builds: BuildApps(system, fsys)
    procs,      \* the process table
    osa,        \* the state of osascript
    psutil_ok,  \* whether psutil.process_iter works
    now,        \* time.time(), in seconds
    launcher,   \* the AppLauncher instance the callers share
    last,       \* the call in progress or just returned, "idle" between calls
    installs,   \* the bundles installed since the start: [root, bundle, at]
    threads,    \* the calls of _scan_installed_apps in progress, line by line
    listed,     \* the previous answer of speak_running_apps, and the process starts
    voice,      \* the VoiceHandler: its listening flag and the calls in progress
    speaker     \* the shared VoiceSpeaker and the requests made to it

vars == <<system, fsys, scan, procs, osa, psutil_ok, now, launcher, last, installs, threads, listed, voice, speaker>>

env == [system |-> system, fsys |-> fsys, scan |-> scan, procs |-> procs, osa |-> osa,
        psutil_ok |-> psutil_ok, now |-> now,
        listed |-> listed]

Idle == [op |-> "idle", arg |-> <<>>, gpt |-> Gpt("absent", <<>>), query |-> <<>>,
         before |-> <<>>, raised |-> FALSE, handled |-> FALSE, ret |-> "None",
         app_name |-> <<>>, message |-> <<>>, cmds |-> <<>>, log |-> <<>>,
         res |-> NoneResult, cache |-> NewLauncher, norm |-> <<>>, running |-> <<>>,
         earlier |-> NotListed]

\* the record of a direct call of a method of the launcher: its argument, the
\* process table it found, what it returned, issued and printed
Direct(op, arg, r) ==
    [Idle EXCEPT !.op = op, !.arg = arg, !.query = arg, !.before = procs,
                 !.ret = r.ret, !.cmds = r.cmds, !.log = r.log]

\* the record of a call of one of the voice entry points; query is the app
\* phrase it read off the command
Voice(op, arg, gpt, query, r) ==
    [Idle EXCEPT !.op = op, !.arg = arg, !.gpt = gpt, !.query = query,
                 !.before = procs, !.raised = r.raised, !.handled = r.handled,
                 !.ret = r.success, !.app_name = r.app_name,
                 !.message = r.message, !.cmds = r.cmds]

\* the threads that share the launcher
Threads == {"t1", "t2"}

\* a thread outside _scan_installed_apps.  In a call, pc is the line it is
\* about to execute, apps its local dict, locs the search roots it has still
\* to visit, got the map the call returned and concurrent whether another
\* thread was between line 163 and line 184 when line 161 read the map.
IdleThread ==
    [pc |-> "idle", apps |-> <<>>, locs |-> <<>>, got |-> <<>>, concurrent |-> FALSE]

\* VoiceHandler.__init__: not listening, no call in progress
NoVoice == [listening |-> FALSE, stack |-> [t \in Threads |-> <<>>], entries |-> 0]

\* the number of requests made to the shared speaker
MaxRequests == 2

Requests == 1..MaxRequests

\* a request not made yet.  kind is speak or speak_and_wait; caller is the
\* line the calling thread is at, worker the line of the thread that
\* _speak_threaded runs in; played says that the playback of the text has
\* finished, event that finished_event is set, calls counts the calls of the
\* on_finished callback of the request and early those made before played
NoRequest ==
    [kind |-> "none", caller |-> "idle", worker |-> "none", played |-> FALSE,
     event |-> FALSE, calls |-> 0, early |-> 0, timed_out |-> FALSE]

\* VoiceSpeaker.__init__: no callback stored (0), not speaking, lock free (0)
NoSpeech ==
    [callback |-> 0, is_speaking |-> FALSE, lock |-> 0,
     req |-> [r \in Requests |-> NoRequest]]


Init ==
    /\ system \in Systems
    /\ fsys \in SeqRange(Disks)
    /\ procs \in SeqRange(ProcessTables)
    /\ osa \in {"ok", "inconclusive", "raises"}
    /\ psutil_ok \in BOOLEAN
    /\ system # "Darwin" => fsys = Disks[1] /\ osa = "ok"
    /\ scan = BuildApps(system, fsys)
    /\ now = 0
    /\ launcher = NewLauncher
    /\ last = Idle
    /\ installs = {}
    /\ threads = [t \in Threads |-> IdleThread]
    /\ speaker = NoSpeech
    /\ voice = NoVoice
    /\ listed = NotListed

(***************************************************************************)
(* Operations                                                              *)
(***************************************************************************)
\* launcher.open_application(app_name)
OpenApplication ==
    \E app_name \in Queries, pathOk \in BOOLEAN, nameOk \in BOOLEAN :
        /\ last.op = "idle"
        /\ \E r \in {open_application(launcher, env, app_name, pathOk, nameOk)} :
               /\ procs' = r.procs
               /\ launcher' = IF system = "Darwin"
                              THEN AfterResolve(launcher, app_name, env)
                              ELSE launcher
               /\ last' = Direct("open_application", app_name, r)
        /\ UNCHANGED <<speaker, voice, listed, threads, installs, system, fsys, scan, osa, psutil_ok, now>>

\* launcher.quit_application(app_name)
QuitApplication ==
    \E app_name \in Queries, gracefulWorks \in BOOLEAN, termWorks \in BOOLEAN :
        /\ last.op = "idle"
        /\ \E r \in {quit_application(launcher, env, app_name, gracefulWorks, termWorks)} :
               /\ procs' = r.procs
               /\ launcher' = AfterResolve(launcher, app_name, env)
               /\ last' = Direct("quit_application", app_name, r)
        /\ UNCHANGED <<speaker, voice, listed, threads, installs, system, fsys, scan, osa, psutil_ok, now>>

\* launcher._resolve_application(query)
ResolveQuery(query) ==
        /\ last.op = "idle"
        /\ last' = [Idle EXCEPT !.op = "_resolve_application", !.arg = query,
                                !.query = query, !.before = procs, !.cache = launcher,
                                !.raised = (query # <<>> /\ ScanFails(launcher, env)),
                                !.res = IF query # <<>> /\ ScanFails(launcher, env)
                                        THEN NoneResult
                                        ELSE _resolve_application(AppsOf(launcher, env), query)]
        /\ launcher' = AfterResolve(launcher, query, env)
        /\ UNCHANGED <<speaker, voice, listed, threads, installs, system, fsys, scan, procs, osa, psutil_ok, now>>

ResolveApplication == \E query \in Queries : ResolveQuery(query)

\* launch_app_by_voice(command, gpt_handler)
LaunchInput(in, pathOk, nameOk) ==
        /\ last.op = "idle"
        /\ \E r \in {LaunchParsed(env, in.parse, pathOk, nameOk)} :
               /\ procs' = r.procs
               /\ last' = Voice("launch_app_by_voice", in.command, in.gpt,
                               in.parse.app_phrase, r)
        /\ UNCHANGED <<speaker, voice, listed, threads, installs, system, fsys, scan, osa, psutil_ok, now, launcher>>

LaunchAppByVoice ==
    \E in \in LaunchInputs, pathOk \in BOOLEAN, nameOk \in BOOLEAN :
        LaunchInput(in, pathOk, nameOk)

\* quit_app_by_voice(command, gpt_handler)
QuitAppByVoice ==
    \E in \in QuitInputs, gracefulWorks \in BOOLEAN, termWorks \in BOOLEAN :
        /\ last.op = "idle"
        /\ \E r \in {QuitPhrase(env, in.parse, gracefulWorks, termWorks)} :
               /\ procs' = r.procs
               /\ last' = Voice("quit_app_by_voice", in.command, in.gpt, in.parse, r)
        /\ UNCHANGED <<speaker, voice, listed, threads, installs, system, fsys, scan, osa, psutil_ok, now, launcher>>

\* the caller takes the result; the engine waits for the next call
Return ==
    /\ last.op # "idle"
    /\ last' = Idle
    /\ UNCHANGED <<speaker, voice, listed, threads, installs, system, fsys, scan, procs, osa, psutil_ok, now, launcher>>

Next ==
    \/ ResolveApplication
    \/ OpenApplication
    \/ QuitApplication
    \/ LaunchAppByVoice
    \/ QuitAppByVoice
    \/ Return

Spec == Init /\ [][Next]_vars

(***************************************************************************)
(* The index over time                                                     *)
(*                                                                         *)
(* The clock moves and applications are installed between the calls.  The  *)
(* cache of the index is the only state of the engine that time and the    *)
(* file system act on, so this specification keeps the calls that read it: *)
(* _scan_installed_apps and _resolve_application.                          *)
(***************************************************************************)
\* the instants at which the clock is read, in seconds: a first build at
\* Instants[1] is 59, 60 and 61 seconds old at the next three, and so on
Instants == <<100, 159, 160, 161, 220, 221, 222>>

\* the bundles that get installed while the engine runs
Installable ==
    << [root |-> "~/Applications", bundle |-> Bundle(N_Safari, "~/Applications/Safari.app")],
       [root |-> "/Applications",
        bundle |-> Bundle(N_VLC, "/Applications/Extras/VLC.app")],
       [root |-> "/System/Applications",
        bundle |-> Bundle(N_Notes, "/System/Applications/Notes.app")] >>

\* the number of installations in one behaviour
MaxInstalls == 1

\* the file system with bundle b added to a root: rglob may yield the new
\* bundle before or after the bundles that were there
Installed(fs, root, b, first) ==
    [fs EXCEPT ![root].apps = IF first THEN <<b>> \o @ ELSE Append(@, b)]

\* the file systems the engine starts on: those of Disks, one whose only
\* search root is readable and holds no bundle yet, and one where
\* /Applications can be neither read nor searched, which makes the existence
\* test of /Applications/Utilities raise
CacheDisks ==
    Disks \o
    << Disk([r \in {"~/Applications"} |-> Root(<<>>)]),
       Disk([r \in {"/Applications", "/Applications/Utilities", "~/Applications"} |->
                IF r = "/Applications"
                THEN Unreadable(<<Bundle(N_Safari, "/Applications/Safari.app")>>)
                ELSE IF r = "/Applications/Utilities" THEN Denied
                ELSE Root(<<Bundle(N_VLC, "~/Applications/VLC.app")>>)]) >>

CacheInit ==
    /\ system \in {"Darwin", "Linux"}
    /\ fsys \in SeqRange(CacheDisks)
    /\ system # "Darwin" => fsys = CacheDisks[1]
    /\ procs = <<>>
    /\ osa = "ok"
    /\ psutil_ok = TRUE
    /\ scan = BuildApps(system, fsys)
    /\ now = Instants[1]
    /\ launcher = NewLauncher
    /\ last = Idle
    /\ installs = {}
    /\ threads = [t \in Threads |-> IdleThread]
    /\ speaker = NoSpeech
    /\ voice = NoVoice
    /\ listed = NotListed

\* time.time() moves on between two calls
Tick ==
    \E k \in 1..Len(Instants) :
        /\ last.op = "idle"
        /\ Instants[k] > now
        /\ now' = Instants[k]
        /\ UNCHANGED <<speaker, voice, listed, threads, installs, system, fsys, scan, procs, osa, psutil_ok, launcher, last>>

\* an application is installed under a search root that exists
Install ==
    \E k \in 1..Len(Installable), first \in BOOLEAN :
        /\ last.op = "idle"
        /\ Cardinality(installs) < MaxInstalls
        /\ fsys[Installable[k].root].exists
        /\ Installable[k].bundle \notin SeqRange(fsys[Installable[k].root].apps)
        /\ fsys' = Installed(fsys, Installable[k].root, Installable[k].bundle, first)
        /\ scan' = BuildApps(system, fsys')
        /\ installs' = installs \cup {[root |-> Installable[k].root,
                                       bundle |-> Installable[k].bundle, at |-> now]}
        /\ UNCHANGED <<speaker, voice, listed, threads, system, procs, osa, psutil_ok, now, launcher, last>>

\* launcher._scan_installed_apps()
ScanInstalledApps ==
    /\ last.op = "idle"
    /\ launcher' = _scan_installed_apps(launcher, env)
    /\ last' = [Idle EXCEPT !.op = "_scan_installed_apps", !.cache = launcher,
                            !.raised = ScanFails(launcher, env)]
    /\ UNCHANGED <<speaker, voice, listed, threads, installs, system, fsys, scan, procs, osa, psutil_ok, now>>

CacheNext ==
    \/ ScanInstalledApps
    \/ ResolveApplication
    \/ Tick
    \/ Install
    \/ Return

CacheSpec == CacheInit /\ [][CacheNext]_vars

(***************************************************************************)
(* The normalizer on its own                                               *)
(*                                                                         *)
(* _normalize is a pure function of the name.  The names are a first part, *)
(* a separator and a second part, together with the empty name and names   *)
(* of white space only.                                                    *)
(***************************************************************************)
NameHeads ==
    { <<"m","s">>, <<"M","S">>, <<"v","s">>, <<"f","o","r","m","s">>, <<"t","h","e">>,
      <<"C","a","f","é">>, <<"7">>, <<>> }

NameSeparators ==
    { <<" ">>, <<" "," ">>, <<"\t">>, <<"-">>, <<".">>, <<"_">>, <<"&">>, <<"!"," ">>, <<>> }

NameTails ==
    { <<"w","o","r","d">>, <<"C","o","d","e">>, <<"a","p","p">>, <<"é","a","p","p">>,
      <<"x"," ">>, <<>> }

Names ==
    {h \o sep \o t : h \in NameHeads, sep \in NameSeparators, t \in NameTails}
        \cup {<<" ">>, <<"\t"," ">>, <<"\n">>}

NormalizeInit ==
    /\ system = "Darwin"
    /\ fsys = Disks[1]
    /\ procs = <<>>
    /\ osa = "ok"
    /\ psutil_ok = TRUE
    /\ scan = BuildApps(system, fsys)
    /\ now = 0
    /\ launcher = NewLauncher
    /\ last = Idle
    /\ installs = {}
    /\ threads = [t \in Threads |-> IdleThread]
    /\ speaker = NoSpeech
    /\ voice = NoVoice
    /\ listed = NotListed

\* launcher._normalize(name)
Normalize ==
    \E name \in Names :
        /\ last.op = "idle"
        /\ last' = [Idle EXCEPT !.op = "_normalize", !.arg = name,
                                !.norm = _normalize(name)]
        /\ UNCHANGED <<speaker, voice, listed, threads, installs, system, fsys, scan, procs, osa, psutil_ok, now,
                       launcher>>

NormalizeNext ==
    \/ Normalize
    \/ Return

NormalizeSpec == NormalizeInit /\ [][NormalizeNext]_vars

(***************************************************************************)
(* The process monitor on its own                                          *)
(*                                                                         *)
(* _is_app_running, speak_running_apps and _matches_process_name called    *)
(* directly, in every environment of Init.                                 *)
(***************************************************************************)
\* the names asked about: of processes that run, of none, blank ones
RunningNames ==
    { N_VLC, N_VLCPlayer, N_Safari, N_Notes, <<"v","l","c"," ","h","e","l","p","e","r">>,
      <<>>, <<" ">>, <<"\t"," ">> }

\* the lowercase process names and the targets of _matches_process_name
ProcNames ==
    { <<"v","l","c">>, <<"v","l","c"," ","p","l","a","y","e","r">>,
      <<"v","l","c","p","l","a","y","e","r">>, <<"v","l","c"," ","h","e","l","p","e","r">>,
      <<"p","l","a","y","e","r">>, <<"s","a","f","a","r","i">>, <<>> }

Targets ==
    { N_VLC, N_VLCPlayer, <<" ","V","L","C"," ","P","l","a","y","e","r">>,
      <<"P","l","a","y","e","r"," ","V","L","C">>, <<"v","l","c","\t","p","l","a","y","e","r">>,
      N_Safari, <<>>, <<" ">> }

\* the process tables of the monitor: those of ProcessTables, one with two
\* processes whose names differ in case only, and one with processes of the
\* operating system among the applications
MonitorTables ==
    ProcessTables \o
    << <<Process(<<"v","l","c">>, FALSE, FALSE), Process(N_Safari, TRUE, FALSE),
         Process(N_VLC, TRUE, FALSE), Process(<<"v","l","c">>, FALSE, FALSE)>>,
       <<Process(N_Safari, TRUE, FALSE), Process(<<"D","o","c","k">>, TRUE, FALSE),
         Process(<<"l","a","u","n","c","h","d">>, FALSE, FALSE),
         Process(N_Notes, TRUE, FALSE), Process(<<"s","a","f","a","r","i">>, TRUE, FALSE)>> >>

MonitorInit ==
    /\ system \in Systems
    /\ fsys \in SeqRange(Disks)
    /\ procs \in SeqRange(MonitorTables)
    /\ osa \in {"ok", "inconclusive", "raises"}
    /\ psutil_ok \in BOOLEAN
    /\ system # "Darwin" => fsys = Disks[1] /\ osa = "ok"
    /\ scan = BuildApps(system, fsys)
    /\ now = 0
    /\ launcher = NewLauncher
    /\ last = Idle
    /\ installs = {}
    /\ threads = [t \in Threads |-> IdleThread]
    /\ speaker = NoSpeech
    /\ voice = NoVoice
    /\ listed = NotListed

\* launcher._is_app_running(name)
IsAppRunning ==
    \E name \in RunningNames :
        \E r \in {_is_app_running(name, env)} :
            /\ last.op = "idle"
            /\ last' = [Idle EXCEPT !.op = "_is_app_running", !.arg = name,
                                    !.before = procs, !.raised = (r = "raise"),
                                    !.ret = IF r = "raise" THEN "None" ELSE r]
            /\ UNCHANGED <<speaker, voice, listed, threads, installs, system, fsys, scan, procs, osa, psutil_ok,
                           now, launcher>>

\* launcher.speak_running_apps()
SpeakRunningApps ==
    /\ last.op = "idle"
    /\ last' = [Idle EXCEPT !.op = "speak_running_apps", !.before = procs,
                            !.running = speak_running_apps(env), !.earlier = listed]
    /\ listed' = [listed EXCEPT !.called = TRUE, !.running = speak_running_apps(env),
                                !.procs = procs]
    /\ UNCHANGED <<speaker, voice, threads, installs, system, fsys, scan, procs, osa, psutil_ok, now,
                   launcher>>

\* launcher._matches_process_name(proc_name, target_name)
MatchesProcessName ==
    \E proc_name \in ProcNames, target_name \in Targets :
        /\ last.op = "idle"
        /\ last' = [Idle EXCEPT
                       !.op = "_matches_process_name", !.arg = target_name,
                       !.app_name = proc_name, !.raised = MatchRaises(target_name),
                       !.ret = IF MatchRaises(target_name) THEN "None"
                               ELSE IF _matches_process_name(proc_name, target_name)
                               THEN "True" ELSE "False"]
        /\ UNCHANGED <<speaker, voice, listed, threads, installs, system, fsys, scan, procs, osa, psutil_ok, now,
                       launcher>>

MonitorNext ==
    \/ IsAppRunning
    \/ SpeakRunningApps
    \/ MatchesProcessName
    \/ Return

MonitorSpec == MonitorInit /\ [][MonitorNext]_vars

(***************************************************************************)
(* The list of running applications while processes start                  *)
(***************************************************************************)
\* the processes that start while the engine runs: an application, a helper
\* without a window, a process of the operating system, and one more
\* instance of an application
Startable ==
    << Process(N_Notes, TRUE, FALSE), Process(N_VLCHelper, FALSE, FALSE),
       Process(<<"l","a","u","n","c","h","d">>, FALSE, FALSE),
       Process(N_Safari, TRUE, FALSE) >>

\* the number of processes started in one behaviour
MaxStarts == 1

\* a process starts: psutil.process_iter yields it after the others
ProcessStarts ==
    \E k \in 1..Len(Startable) :
        /\ last.op = "idle"
        /\ listed.starts < MaxStarts
        /\ procs' = Append(procs, Startable[k])
        /\ listed' = [listed EXCEPT !.starts = @ + 1]
        /\ UNCHANGED <<speaker, voice, threads, installs, system, fsys, scan, osa, psutil_ok, now, launcher,
                       last>>

ListNext ==
    \/ SpeakRunningApps
    \/ ProcessStarts
    \/ Return

ListSpec == MonitorInit /\ [][ListNext]_vars

(***************************************************************************)
(* Concurrent calls of _scan_installed_apps                                *)
(*                                                                         *)
(* Two threads share the launcher and run _scan_installed_apps one         *)
(* attribute access at a time.  The launcher has no lock: the reads of     *)
(* line 160 and 161 and the writes of lines 183 and 184 of one thread      *)
(* interleave with those of the other in any order.  An attribute read or  *)
(* write is one step (a reference is read or stored whole), and so is the  *)
(* scan of one search root into the local dict.                            *)
(***************************************************************************)
\* the last instant of the clock while the threads run
ConcurrentHorizon == Instants[4]

\* the search roots still to visit, without the leading ones that do not
\* exist: "if not p.exists(): continue" touches nothing
RECURSIVE SkipMissing(_, _)
SkipMissing(locs, fs) ==
    IF locs = <<>> \/ fs[Head(locs)].exists \/ fs[Head(locs)].denied THEN locs
    ELSE SkipMissing(Tail(locs), fs)

ConcurrentInit ==
    /\ system = "Darwin"
    /\ fsys \in {CacheDisks[2], CacheDisks[6]}
    /\ procs = <<>>
    /\ osa = "ok"
    /\ psutil_ok = TRUE
    /\ scan = BuildApps(system, fsys)
    /\ now = Instants[1]
    /\ launcher = NewLauncher
    /\ last = Idle
    /\ installs = {}
    /\ threads = [t \in Threads |-> IdleThread]
    /\ speaker = NoSpeech
    /\ voice = NoVoice
    /\ listed = NotListed

\* a thread enters _scan_installed_apps
Enter(t) ==
    /\ threads[t].pc = "idle"
    /\ threads' = [threads EXCEPT ![t].pc = "cache"]
    /\ UNCHANGED <<speaker, voice, listed, installs, system, fsys, scan, procs, osa, psutil_ok, now, launcher, last>>

\* line 160, getattr(self, "_apps_cache", None): a falsy map goes on to the scan
ReadCache(t) ==
    /\ threads[t].pc = "cache"
    /\ threads' = [threads EXCEPT ![t] =
                      IF launcher._apps_cache # <<>> THEN [@ EXCEPT !.pc = "age"]
                      ELSE [@ EXCEPT !.pc = "scan", !.apps = <<>>,
                                     !.locs = SkipMissing(_app_search_locations(system),
                                                          fsys)]]
    /\ UNCHANGED <<speaker, voice, listed, installs, system, fsys, scan, procs, osa, psutil_ok, now, launcher, last>>

\* line 160, time.time() - getattr(self, "_apps_cache_time", 0) < 60
ReadAge(t) ==
    /\ threads[t].pc = "age"
    /\ threads' = [threads EXCEPT ![t] =
                      IF now - launcher._apps_cache_time < CacheTTL
                      THEN [@ EXCEPT !.pc = "serve"]
                      ELSE [@ EXCEPT !.pc = "scan", !.apps = <<>>,
                                     !.locs = SkipMissing(_app_search_locations(system),
                                                          fsys)]]
    /\ UNCHANGED <<speaker, voice, listed, installs, system, fsys, scan, procs, osa, psutil_ok, now, launcher, last>>

\* line 161, return self._apps_cache
Serve(t) ==
    /\ threads[t].pc = "serve"
    /\ threads' = [threads EXCEPT
                      ![t].pc = "done", ![t].got = launcher._apps_cache,
                      ![t].concurrent = \E u \in Threads \ {t} :
                                           threads[u].pc \in {"scan", "publish", "stamp"}]
    /\ UNCHANGED <<speaker, voice, listed, installs, system, fsys, scan, procs, osa, psutil_ok, now, launcher, last>>

\* lines 165-178 for one search root; after the last root the thread is at
\* line 183
ScanRoot(t) ==
    /\ threads[t].pc = "scan"
    /\ IF threads[t].locs = <<>>
       THEN /\ threads' = [threads EXCEPT ![t].pc = "publish"]
            /\ UNCHANGED launcher
       ELSE \E root \in {fsys[Head(threads[t].locs)]} :
             \E apps \in {IF root.exists /\ root.readable
                           THEN AddBundles(threads[t].apps, root.apps)
                           ELSE threads[t].apps} :
                IF root.denied
                THEN /\ threads' = [threads EXCEPT ![t].pc = "raised"]
                     /\ UNCHANGED launcher
                ELSE /\ threads' = [threads EXCEPT ![t].apps = apps,
                                                   ![t].locs = SkipMissing(Tail(@), fsys)]
                     /\ launcher' = ScanRootShared(launcher, apps)
    /\ UNCHANGED <<speaker, voice, listed, installs, system, fsys, scan, procs, osa, psutil_ok, now, last>>

\* line 183, self._apps_cache = apps
Publish(t) ==
    /\ threads[t].pc = "publish"
    /\ launcher' = [launcher EXCEPT !._apps_cache = threads[t].apps]
    /\ threads' = [threads EXCEPT ![t].pc = "stamp"]
    /\ UNCHANGED <<speaker, voice, listed, installs, system, fsys, scan, procs, osa, psutil_ok, now, last>>

\* lines 184-185, self._apps_cache_time = time.time(); return apps
Stamp(t) ==
    /\ threads[t].pc = "stamp"
    /\ launcher' = [launcher EXCEPT !._apps_cache_time = now]
    /\ threads' = [threads EXCEPT ![t].pc = "done", ![t].got = threads[t].apps]
    /\ UNCHANGED <<speaker, voice, listed, installs, system, fsys, scan, procs, osa, psutil_ok, now, last>>

\* the caller has its map, or the exception: the thread is out of the call
Leave(t) ==
    /\ threads[t].pc \in {"done", "raised"}
    /\ threads' = [threads EXCEPT ![t] = IdleThread]
    /\ UNCHANGED <<speaker, voice, listed, installs, system, fsys, scan, procs, osa, psutil_ok, now, launcher, last>>

ConcurrentNext ==
    \/ \E t \in Threads : Enter(t)
    \/ \E t \in Threads : ReadCache(t)
    \/ \E t \in Threads : ReadAge(t)
    \/ \E t \in Threads : Serve(t)
    \/ \E t \in Threads : ScanRoot(t)
    \/ \E t \in Threads : Publish(t)
    \/ \E t \in Threads : Stamp(t)
    \/ \E t \in Threads : Leave(t)
    \/ Tick /\ now' <= ConcurrentHorizon
    \/ Install

ConcurrentSpec == ConcurrentInit /\ [][ConcurrentNext]_vars

(***************************************************************************)
(* Properties                                                              *)
(*                                                                         *)
(* They are read off the record of the call in last: the environment did   *)
(* not change during the call except for the process table, whose value    *)
(* at the call is last.before.  Every handler resolves against the map     *)
(* the scan of the file system builds, which is scan.                      *)
(***************************************************************************)
\* the environment the call recorded in last ran in
AtCall == [env EXCEPT !.procs = last.before]

\* what the resolver answers for the name or phrase of the call
Resolved == _resolve_application(scan, last.query)

\* the name quit works on: resolved[0] if resolved else the name given
Target == TargetName(scan, last.query)

LaunchCmds == {"open_path", "open_a", "popen"}

CmdNames(cmds) == {cmds[i].cmd : i \in 1..Len(cmds)}

\* an open request: a call of open_application, or a voice command that the
\* running-apps guard did not answer and that names an application
OpenRequest ==
    \/ last.op = "open_application"
    \/ last.op = "launch_app_by_voice" /\ ~last.handled /\ last.query # <<>>

\* a quit request: a call of quit_application, or a voice command that names
\* an application
QuitRequest ==
    \/ last.op = "quit_application"
    \/ last.op = "quit_app_by_voice" /\ last.query # <<>>

\* some process of the table matches the name (the test of the terminate loop)
SomeProcessMatches(procs_, name) ==
    \E i \in 1..Len(procs_) : MatchingAt(procs_, name, i)

\* the process monitor can answer: System Events does, or psutil does
MonitorWorks == (system = "Darwin" /\ osa = "ok") \/ psutil_ok

(***************************************************************************)
(* C1  When open is requested for a query that resolves to an installed    *)
(* application which the process monitor reports running, the controller   *)
(* calls activate for that application, issues no launch command (neither  *)
(* by path nor by display name) and returns success.                       *)
(***************************************************************************)
C1_RunningCase ==
    /\ OpenRequest
    /\ Resolved.found
    /\ _is_app_running(Resolved.display, AtCall) = "True"

C1_RunningAppIsActivated ==
    C1_RunningCase =>
        /\ ~last.raised
        /\ last.ret = "True"
        /\ \E i \in 1..Len(last.cmds) :
               last.cmds[i] = Cmd("activate_application", Resolved.display, "", TRUE)
        /\ CmdNames(last.cmds) \cap LaunchCmds = {}

C1_Witness ==
    /\ C1_RunningCase
    /\ last.op = "open_application"
    /\ last.ret = "True"
    /\ CmdNames(last.cmds) = {"activate_application", "osascript_activate"}

(***************************************************************************)
(* C2  A quit of an application that is not running (no process matches    *)
(* its name) returns success = false and issues no command on every        *)
(* platform, as long as the process monitor can answer.  The message of    *)
(* quit_app_by_voice is "Sir, <app> isn't currently running." on macOS and *)
(* "Sir, <app> doesn't appear to be running at the moment." elsewhere;     *)
(* the words "is not currently running" are only in the line that          *)
(* quit_application prints.                                                *)
(***************************************************************************)
C2_NotRunningCase ==
    /\ QuitRequest
    /\ ~MatchRaises(Target)
    /\ ~SomeProcessMatches(last.before, Target)
    /\ MonitorWorks

NotCurrentlyRunning == <<"n","o","t"," ","c","u","r","r","e","n","t","l","y",
    " ","r","u","n","n","i","n","g">>

PublicOps == {"open_application", "quit_application",
              "launch_app_by_voice", "quit_app_by_voice"}

C3_AlwaysABooleanResult ==
    last.op \in PublicOps => ~last.raised /\ last.ret \in {"True", "False"}

\* C3, its two parts apart: no exception leaves a public operation, and a
\* public operation that returns returns a boolean
C3_NothingRaised == last.op \in PublicOps => ~last.raised

C3_NoReturnWithoutResult ==
    last.op \in PublicOps /\ ~last.raised => last.ret \in {"True", "False"}

(***************************************************************************)
(* C4  In quit, a graceful quit request is sent only on macOS and only     *)
(* when the process monitor reports the application running; after the     *)
(* request come the fixed wait and the re-check, and a terminate signal    *)
(* follows them only when the re-check did not find the application gone.  *)
(* Without a request (another platform, the monitor reporting not running, *)
(* or the request itself failing) terminate is issued directly.  The       *)
(* success returned is true exactly when the re-check found the            *)
(* application gone or a terminate signal was delivered to a matching      *)
(* process; it does not say whether the application is still running.      *)
(***************************************************************************)
\* the name quit_application works on: quit_app_by_voice hands it the name
\* it resolved, which quit_application resolves again
QuitTarget ==
    IF last.op = "quit_app_by_voice" THEN TargetName(scan, Target) ELSE Target

\* quit_application is reached and its monitor reports the target running
C4_GracefulCase ==
    /\ QuitRequest
    /\ system = "Darwin"
    /\ _is_app_running(QuitTarget, AtCall) = "True"
    /\ last.op = "quit_app_by_voice" => _is_app_running(Target, AtCall) = "True"

Delivered(c) ==
    \/ c.cmd = "recheck_not_running"
    \/ c.cmd = "terminate" /\ c.ok

C4_TerminateIsTheFallback ==
    QuitRequest =>
        /\ C4_GracefulCase =>
               /\ last.cmds # <<>>
               /\ last.cmds[1] = Cmd("osascript_quit", QuitTarget, "", osa # "raises")
        /\ "osascript_quit" \in CmdNames(last.cmds) => C4_GracefulCase
        /\ \A i \in 1..Len(last.cmds) :
               (last.cmds[i].cmd = "terminate" /\ last.cmds[1].ok
                   /\ last.cmds[1].cmd = "osascript_quit") =>
                   (i > 3 /\ last.cmds[2].cmd = "sleep"
                          /\ last.cmds[3].cmd = "recheck_running")
        /\ last.ret = "True" <=>
               last.cmds # <<>> /\ Delivered(last.cmds[Len(last.cmds)])

C4_Witness ==
    /\ C4_GracefulCase
    /\ last.op = "quit_application"
    /\ Len(last.cmds) = 4
    /\ last.cmds[3].cmd = "recheck_running"
    /\ last.cmds[4].cmd = "terminate"
    /\ last.ret = "True"
    /\ SomeProcessMatches(procs, QuitTarget)

\* C4 as the specification words it: a terminate signal is issued only after
\* a graceful request, the wait and a re-check that found the application
\* still running, and the success returned equals whether the application is
\* no longer running when quit returns
C4_GracefulAlwaysFirst ==
    (/\ QuitRequest
     /\ psutil_ok
     /\ ~MatchRaises(QuitTarget)
     /\ SomeProcessMatches(last.before, QuitTarget)) =>
        /\ \A i \in 1..Len(last.cmds) :
               last.cmds[i].cmd = "terminate" =>
                   /\ i > 3
                   /\ last.cmds[1] = Cmd("osascript_quit", QuitTarget, "", TRUE)
                   /\ last.cmds[2].cmd = "sleep"
                   /\ last.cmds[3].cmd = "recheck_running"
        /\ last.ret = "True" <=> ~SomeProcessMatches(procs, QuitTarget)

(***************************************************************************)
(* C5  When the resolver returns none for the phrase of a voice command on *)
(* macOS, launch_app_by_voice issues no launch command and returns a       *)
(* failure that names the phrase.  open_application itself, and            *)
(* launch_app_by_voice on Windows and Linux (where the index is empty),    *)
(* launch the name as given as a last resort and return success exactly    *)
(* when that launch raised nothing.                                        *)
(***************************************************************************)
C5_UnresolvedCase == OpenRequest /\ ~Resolved.found

\* the last-resort launch of the name as given
LastResort(ok) ==
    IF system = "Darwin" THEN Cmd("open_a", last.query, "", ok)
    ELSE IF system = "Windows" THEN Cmd("popen", last.query, "", ok)
    ELSE Cmd("popen", lower(last.query), "", ok)

C5_UnresolvedOpen ==
    C5_UnresolvedCase /\ system \in {"Darwin", "Windows", "Linux"} =>
        /\ ~last.raised
        /\ IF last.op = "launch_app_by_voice" /\ system = "Darwin"
           THEN /\ last.cmds = <<>>
                /\ last.ret = "False"
                /\ last.app_name = last.query
                /\ last.message = MsgCouldntFind \o last.query \o MsgInstalledOn
           ELSE \/ last.cmds = <<LastResort(TRUE)>> /\ last.ret = "True"
                \/ last.cmds = <<LastResort(FALSE)>> /\ last.ret = "False"
        /\ last.op = "launch_app_by_voice" => last.app_name = last.query

C5_Witness ==
    /\ C5_UnresolvedCase
    /\ last.op = "launch_app_by_voice"
    /\ system = "Darwin"
    /\ scan # <<>>
    /\ last.ret = "False"
    /\ last.message = MsgCouldntFind \o last.query \o MsgInstalledOn

\* C5 as the specification words it: an open request whose query does not
\* resolve issues no launch command and returns a failure
C5_UnresolvedNeverLaunches ==
    C5_UnresolvedCase /\ split(last.query) # <<>> =>
        /\ CmdNames(last.cmds) \cap LaunchCmds = {}
        /\ last.ret = "False"

(***************************************************************************)
(* C6  A quit in which the application is running but neither the graceful *)
(* quit nor the terminate signal gets through (every matching process      *)
(* denies access) returns a failure that differs, in its result or its     *)
(* message, from what the same quit returns when the application is not    *)
(* running at all.                                                         *)
(***************************************************************************)
\* the application was found running and no terminate() got through
C6_TerminationFailed ==
    /\ QuitRequest
    /\ ~last.raised
    /\ last.ret = "False"
    /\ \E i \in 1..Len(last.cmds) : last.cmds[i].cmd = "terminate" /\ ~last.cmds[i].ok
    /\ system = "Darwin" => last.cmds[1] = Cmd("osascript_quit", QuitTarget, "", TRUE)

\* what the same call returns and says when no process runs at all
C6_WhenNotRunning ==
    LET e == [AtCall EXCEPT !.procs = <<>>]
    IN  IF last.op = "quit_application"
        THEN LET r == quit_application(NewLauncher, e, last.arg, FALSE, FALSE)
             IN  <<r.ret, r.log>>
        ELSE LET r == QuitPhrase(e, last.query, FALSE, FALSE)
             IN  <<r.success, r.message>>

C6_FailureIsDistinct ==
    C6_TerminationFailed /\ MonitorWorks =>
        (IF last.op = "quit_application"
         THEN <<last.ret, last.log>> ELSE <<last.ret, last.message>>) # C6_WhenNotRunning

(***************************************************************************)
(* C7  For a resolved application that is not running, open first issues   *)
(* the launch by installation path; the launch by display name is issued   *)
(* only if the launch by path fails; open returns success if either launch *)
(* was issued without error and failure only if both failed.               *)
(***************************************************************************)
C7_LaunchCase ==
    /\ OpenRequest
    /\ Resolved.found
    /\ _is_app_running(Resolved.display, AtCall) = "False"

C7_PathThenName ==
    C7_LaunchCase =>
        /\ ~last.raised
        /\ last.cmds # <<>>
        /\ \E ok \in BOOLEAN :
               last.cmds[1] = Cmd("open_path", Resolved.display, Resolved.path, ok)
        /\ IF last.cmds[1].ok
           THEN Len(last.cmds) = 1 /\ last.ret = "True"
           ELSE /\ Len(last.cmds) = 2
                /\ \E ok \in BOOLEAN :
                       last.cmds[2] = Cmd("open_a", Resolved.display, "", ok)
                /\ last.ret = IF last.cmds[2].ok THEN "True" ELSE "False"

C7_Witness ==
    /\ C7_LaunchCase
    /\ last.op = "open_application"
    /\ Len(last.cmds) = 2
    /\ ~last.cmds[1].ok
    /\ last.cmds[2].ok
    /\ last.ret = "True"

(***************************************************************************)
(* C8  _resolve_application tries the tiers in the fixed order exact alias *)
(* (confidence 1.0), alias without spaces (0.95), word containment, fuzzy  *)
(* match of the display names (0.7) and returns the result of the first    *)
(* tier that matches: the result of a lower tier is never returned for a   *)
(* query that a higher tier matches, and none is returned exactly when no  *)
(* tier matches.                                                           *)
(***************************************************************************)
\* what each tier finds for the query of the call, stated on the map itself
ExactMatch == _normalize(last.arg) \in Aliases(scan)

RelaxedMatch == replace(_normalize(last.arg), SP, <<>>) \in Aliases(scan)

ContainmentMatch == CandidateEntries(scan, split(_normalize(last.arg))) # {}

FuzzyMatch == get_close_matches(last.arg, Displays(scan)) # <<>>

C8_FirstMatchingTier ==
    last.op = "_resolve_application" =>
        LET nq == _normalize(last.arg)
            r  == last.res
        IN  IF ExactMatch THEN
                /\ r.found /\ r.score = <<1, 1>>
                /\ r.display = Lookup(scan, nq).display
                /\ r.path = Lookup(scan, nq).path
            ELSE IF RelaxedMatch THEN
                /\ r.found /\ r.score = <<19, 20>>
                /\ r.display = Lookup(scan, replace(nq, SP, <<>>)).display
                /\ r.path = Lookup(scan, replace(nq, SP, <<>>)).path
            ELSE IF ContainmentMatch THEN
                /\ r.found
                /\ \E i \in CandidateEntries(scan, split(nq)) :
                       /\ r.display = scan[i].display
                       /\ r.path = scan[i].path
                       /\ FracEq(r.score, WordScore(split(nq), scan[i].alias))
                       /\ \A j \in CandidateEntries(scan, split(nq)) :
                              ~FracLess(r.score, WordScore(split(nq), scan[j].alias))
            ELSE IF FuzzyMatch THEN
                /\ r.found /\ r.score = <<7, 10>>
                /\ r.display = get_close_matches(last.arg, Displays(scan))[1]
            ELSE r = NoneResult

\* a query that the exact tier and the containment tier both match, answered
\* by the exact tier
C8_Witness ==
    /\ last.op = "_resolve_application"
    /\ ExactMatch /\ RelaxedMatch /\ ContainmentMatch
    /\ last.res.found
    /\ last.res.score = <<1, 1>>

\* each of the lower tiers answers some query of the model
C8_RelaxedWitness ==
    last.op = "_resolve_application" /\ last.res.score = <<19, 20>>

C8_ContainmentWitness ==
    /\ last.op = "_resolve_application"
    /\ ~ExactMatch /\ ~RelaxedMatch /\ last.res.score = <<2, 3>>

C8_FuzzyWitness ==
    last.op = "_resolve_application" /\ last.res.score = <<7, 10>>

(***************************************************************************)
(* C9  For a query that equals, ignoring case, the display name of an      *)
(* application the scan found, _resolve_application answers with           *)
(* confidence 1.0 the application that the alias map binds the normalised  *)
(* query to: the first application in scan order that has it among its     *)
(* aliases (first seen wins).  That is the application named unless an     *)
(* application scanned before it has the same alias.                       *)
(***************************************************************************)
\* the bundles the scan visits, in order: those of the search roots that
\* exist and can be read
RECURSIVE BundlesOf(_)
BundlesOf(locs) ==
    IF locs = <<>> THEN <<>>
    ELSE (IF fsys[Head(locs)].exists /\ fsys[Head(locs)].readable
          THEN fsys[Head(locs)].apps ELSE <<>>) \o BundlesOf(Tail(locs))

Scanned == BundlesOf(_app_search_locations(system))

\* the bundles whose display name is the query, ignoring case
Named == {k \in 1..Len(Scanned) : lower(Scanned[k].display) = lower(last.arg)}

\* the bundles that have the normalised query among their aliases
Claiming ==
    {k \in 1..Len(Scanned) :
        _normalize(last.arg) \in SeqRange(_collect_aliases(Scanned[k].display))}

C9_ExactNameCase ==
    last.op = "_resolve_application" /\ last.arg # <<>> /\ Named # {}

C9_ExactNameGoesToAliasOwner ==
    C9_ExactNameCase =>
        LET first == CHOOSE k \in Claiming : \A j \in Claiming : k <= j
        IN  /\ Claiming # {}
            /\ last.res = Result(Scanned[first].display, Scanned[first].path, <<1, 1>>)

\* the query names an application and is answered with another one
C9_Witness ==
    /\ C9_ExactNameCase
    /\ last.res.found
    /\ last.res.score = <<1, 1>>
    /\ \E k \in Named : Scanned[k].display # last.res.display

\* C9 as the specification words it: the application whose display name is
\* the query is returned itself, whatever else is in the index
C9_ExactNameGoesToThatApp ==
    C9_ExactNameCase =>
        \A k \in Named :
            last.res = Result(Scanned[k].display, Scanned[k].path, <<1, 1>>)

(***************************************************************************)
(* C10  In the word-containment tier each alias scores (number of query    *)
(* words contained in the alias) / (number of query words), the aliases    *)
(* scoring at least 0.6 are the candidates, the candidate of the highest   *)
(* score is returned, and among candidates of equal highest score the one  *)
(* met first in the order of the alias map.                                *)
(***************************************************************************)
C10_ContainmentCase ==
    /\ last.op = "_resolve_application"
    /\ last.arg # <<>>
    /\ ~ExactMatch /\ ~RelaxedMatch /\ ContainmentMatch

\* the candidates of the highest score
C10_Best ==
    LET q_words == split(_normalize(last.arg))
        c == CandidateEntries(scan, q_words)
    IN  {i \in c : \A j \in c :
            ~FracLess(WordScore(q_words, scan[i].alias), WordScore(q_words, scan[j].alias))}

C10_FirstMetWins ==
    C10_ContainmentCase =>
        LET first == CHOOSE i \in C10_Best : \A j \in C10_Best : i <= j
        IN  /\ last.res.found
            /\ FracEq(last.res.score,
                      WordScore(split(_normalize(last.arg)), scan[first].alias))
            /\ last.res.display = scan[first].display
            /\ last.res.path = scan[first].path

(***************************************************************************)
(* C11  When the application index is empty, _resolve_application returns  *)
(* None for every query that is not blank.                                 *)
(***************************************************************************)
C11_EmptyIndexCase ==
    /\ last.op = "_resolve_application"
    /\ scan = <<>>
    /\ strip(last.arg) # <<>>

C11_EmptyIndexResolvesNothing == C11_EmptyIndexCase => last.res = NoneResult

\* a query of several words, asked on macOS where the scan found no bundle
C11_Witness ==
    /\ C11_EmptyIndexCase
    /\ system = "Darwin"
    /\ Len(split(last.arg)) > 1
    /\ last.res = NoneResult


(***************************************************************************)
(* C12: _scan_installed_apps serves the cached map without rescanning      *)
(* whenever the map is at most 60 seconds old, whatever the cached map is  *)
(* (an empty one included), and rescans only when it is older than 60      *)
(* seconds.                                                                *)
(* The source serves the cache only when the cached map is non-empty and   *)
(* younger than 60 seconds (line 160): an empty cached map is scanned      *)
(* again at every call, and so is a map exactly 60 seconds old.            *)
(***************************************************************************)
\* a call of _scan_installed_apps on a launcher that built its map before
C12_CachedCall ==
    /\ last.op = "_scan_installed_apps"
    /\ last.cache._apps_cache_time >= Instants[1]

\* the age of the cached map at the call
C12_Age == now - last.cache._apps_cache_time

C12_ServesCacheUpToTTL ==
    C12_CachedCall => (launcher = last.cache <=> C12_Age <= CacheTTL)

\* an empty cached map is scanned again within the TTL
C12_EmptyMapRescanned ==
    /\ C12_CachedCall
    /\ last.cache._apps_cache = <<>>
    /\ C12_Age < CacheTTL
    /\ launcher._apps_cache # <<>>

\* a map exactly 60 seconds old is scanned again
C12_RescannedAtTTL ==
    /\ C12_CachedCall
    /\ last.cache._apps_cache # <<>>
    /\ C12_Age = CacheTTL
    /\ launcher._apps_cache_time = now


(***************************************************************************)
(* C13: a query made 61 seconds or more after the previous build of the    *)
(* index triggers a rebuild, and the map it is answered from contains      *)
(* every app installed between the previous build and the query.           *)
(* The rebuild happens and its map is the scan of the file system as it is *)
(* at the query.  That map does not hold every installed app: the scan     *)
(* finds nothing off macOS, skips a root it cannot read, and binds an      *)
(* alias to the first bundle that has it, so a bundle all of whose aliases *)
(* are taken has no entry.  What holds for a bundle installed under a      *)
(* readable root on macOS is that each of its aliases is bound, to the     *)
(* bundle itself or to one scanned before it.                              *)
(***************************************************************************)
\* a non-empty query answered (the scan did not raise) 61 seconds or more
\* after the previous build
C13_StaleQuery ==
    /\ last.op \in {"_scan_installed_apps", "_resolve_application"}
    /\ last.op = "_resolve_application" => last.arg # <<>>
    /\ ~last.raised
    /\ last.cache._apps_cache_time >= Instants[1]
    /\ now - last.cache._apps_cache_time >= CacheTTL + 1

\* the installations after the previous build
C13_InstalledSince == {i \in installs : i.at > last.cache._apps_cache_time}

C13_Rebuilt ==
    /\ launcher._apps_cache_time = now
    /\ launcher._apps_cache = scan

\* alias a of bundle b is bound to b or to a bundle scanned before b
C13_Bound(a, b) ==
    /\ a \in Aliases(launcher._apps_cache)
    /\ \E j \in 1..Len(Scanned) :
           /\ Scanned[j] = b
           /\ \E k \in 1..j : Scanned[k].path = Lookup(launcher._apps_cache, a).path

C13_StaleQueryRebuildsFromDisk ==
    C13_StaleQuery =>
        /\ C13_Rebuilt
        /\ \A i \in C13_InstalledSince :
               system = "Darwin" /\ fsys[i.root].readable =>
                   \A a \in SeqRange(_collect_aliases(i.bundle.display)) :
                       C13_Bound(a, i.bundle)

\* the claim as stated: every bundle installed since has an entry
C13_StaleQueryHoldsEveryInstalledApp ==
    C13_StaleQuery =>
        /\ C13_Rebuilt
        /\ \A i \in C13_InstalledSince :
               \E k \in 1..Len(launcher._apps_cache) :
                   launcher._apps_cache[k].path = i.bundle.path

\* a resolve 61 seconds after a build finds an app installed in between
C13_Witness ==
    /\ C13_StaleQuery
    /\ last.op = "_resolve_application"
    /\ now - last.cache._apps_cache_time = CacheTTL + 1
    /\ last.cache._apps_cache # <<>>
    /\ \E i \in C13_InstalledSince :
           /\ last.res.found
           /\ last.res.path = i.bundle.path
           /\ \A k \in 1..Len(last.cache._apps_cache) :
                  last.cache._apps_cache[k].path # i.bundle.path

\* the three ways an installed bundle is missing from the rebuilt map
C13_MissingOffMacOS ==
    /\ C13_StaleQuery
    /\ system # "Darwin"
    /\ C13_InstalledSince # {}

C13_MissingUnreadableRoot ==
    /\ C13_StaleQuery
    /\ system = "Darwin"
    /\ \E i \in C13_InstalledSince : ~fsys[i.root].readable

C13_MissingAliasesTaken ==
    /\ C13_StaleQuery
    /\ system = "Darwin"
    /\ \E i \in C13_InstalledSince :
           /\ fsys[i.root].readable
           /\ \A k \in 1..Len(launcher._apps_cache) :
                  launcher._apps_cache[k].path # i.bundle.path


(***************************************************************************)
(* C14: after every rebuild of the index each alias of the map is bound to *)
(* exactly one app: the first app in scan order (the search roots in       *)
(* listed order, each in its enumeration order) whose alias set contains   *)
(* it.  An app found later in the same rebuild never replaces the binding. *)
(***************************************************************************)
\* a call that has just rebuilt the map
C14_Rebuilt ==
    /\ last.op \in {"_scan_installed_apps", "_resolve_application"}
    /\ last.op = "_resolve_application" => last.arg # <<>>
    /\ ~CacheFresh(last.cache, now)
    /\ ~last.raised

\* the alias sets of the bundles in scan order
C14_AliasSets ==
    [k \in 1..Len(Scanned) |-> SeqRange(_collect_aliases(Scanned[k].display))]

\* the map binds every alias of every bundle scanned, once, to the first
\* bundle in the order that has it
C14_FirstWins(apps, order, sets) ==
    /\ \A i, j \in 1..Len(apps) : apps[i].alias = apps[j].alias => i = j
    /\ \A i \in 1..Len(apps) :
           \E k \in 1..Len(order) :
               /\ apps[i].alias \in sets[k]
               /\ \A j \in 1..(k - 1) : apps[i].alias \notin sets[j]
               /\ apps[i].path = order[k].path
               /\ apps[i].display = order[k].display
    /\ \A k \in 1..Len(order) : sets[k] \subseteq Aliases(apps)

C14_EachAliasBoundToFirstInScanOrder ==
    C14_Rebuilt => C14_FirstWins(launcher._apps_cache, Scanned, C14_AliasSets)

\* a bundle at another path, later in the order, has an alias of the map
C14_LaterHolder(apps, order, sets) ==
    \E i \in 1..Len(apps) : \E k \in 1..Len(order) :
        /\ apps[i].alias \in sets[k]
        /\ order[k].path # apps[i].path

\* a rebuild in which two bundles at different paths have an alias in common
C14_Witness ==
    /\ C14_Rebuilt
    /\ C14_LaterHolder(launcher._apps_cache, Scanned, C14_AliasSets)


(***************************************************************************)
(* C16: if scanning one search root fails during a rebuild, the rebuild    *)
(* still scans every remaining root and completes with a map that holds    *)
(* the apps of all the roots that succeeded; the failure does not reach    *)
(* the caller of the resolver.                                             *)
(***************************************************************************)
\* the search roots whose enumeration raises
C16_FailedRoots ==
    {r \in SeqRange(_app_search_locations(system)) : fsys[r].exists /\ ~fsys[r].readable}

\* the search roots whose existence test raises
C16_DeniedRoots == {r \in SeqRange(_app_search_locations(system)) : fsys[r].denied}

\* the file system without the roots that failed
C16_Succeeded ==
    [r \in AllRoots |-> IF r \in C16_FailedRoots \cup C16_DeniedRoots THEN NoRoot ELSE fsys[r]]

\* a rebuild during which a root fails
C16_RebuildWithFailure ==
    /\ last.op \in {"_scan_installed_apps", "_resolve_application"}
    /\ last.op = "_resolve_application" => last.arg # <<>>
    /\ ~CacheFresh(last.cache, now)
    /\ C16_FailedRoots \cup C16_DeniedRoots # {}

\* every bundle of a root has each of its aliases in the map
C16_Holds(apps, root) ==
    \A k \in 1..Len(root.apps) :
        SeqRange(_collect_aliases(root.apps[k].display)) \subseteq Aliases(apps)

C16_FailedRootIsSkipped ==
    C16_RebuildWithFailure =>
        /\ ~last.raised
        /\ launcher._apps_cache_time = now
        /\ launcher._apps_cache = BuildApps(system, C16_Succeeded)
        /\ \A r \in SeqRange(_app_search_locations(system))
                      \ (C16_FailedRoots \cup C16_DeniedRoots) :
               fsys[r].exists => C16_Holds(launcher._apps_cache, fsys[r])
        /\ last.op = "_resolve_application" =>
               last.res = _resolve_application(BuildApps(system, C16_Succeeded), last.arg)

\* a resolve that rebuilds, with a root that fails listed before a root whose
\* app the query finds
C16_Witness ==
    /\ C16_RebuildWithFailure
    /\ last.op = "_resolve_application"
    /\ last.res.found
    /\ \E i, j \in 1..Len(_app_search_locations(system)) :
           /\ i < j
           /\ _app_search_locations(system)[i] \in C16_FailedRoots
           /\ \E k \in 1..Len(fsys[_app_search_locations(system)[j]].apps) :
                  fsys[_app_search_locations(system)[j]].apps[k].path = last.res.path


\* what the source does: a root whose enumeration raises is skipped, a root
\* whose existence test raises ends the scan with the exception
C16_RaisingEnumerationIsSkipped ==
    C16_RebuildWithFailure =>
        IF C16_DeniedRoots # {}
        THEN last.raised /\ launcher = last.cache
        ELSE /\ ~last.raised
             /\ launcher._apps_cache_time = now
             /\ launcher._apps_cache = BuildApps(system, C16_Succeeded)

\* a resolve that raises because the existence test of a root raises
C16_FailurePropagates ==
    /\ C16_RebuildWithFailure
    /\ last.op = "_resolve_application"
    /\ last.raised


(***************************************************************************)
(* C15: while one thread rebuilds the index, a concurrent resolve on the   *)
(* same engine never reads a partially built alias map: every map a reader *)
(* obtains is either the complete previous map or the complete new one.    *)
(* The rebuild fills a local dict and stores the reference in              *)
(* self._apps_cache when all the roots are done (line 183), so what a      *)
(* reader obtains from line 161, or builds itself, is the scan of all the  *)
(* roots of the file system, each root as it is or as it was before an     *)
(* installation.                                                           *)
(***************************************************************************)
\* the installations as [root, bundle]
C15_Installed == {[root |-> i.root, bundle |-> i.bundle] : i \in installs}

\* the file system without the installations of S
C15_Without(S) ==
    [r \in AllRoots |->
        [fsys[r] EXCEPT !.apps = SelectSeq(@, LAMBDA b : [root |-> r, bundle |-> b] \notin S)]]

\* the maps of the complete scans: a scan visits each root once, before or
\* after each installation
C15_Complete(apps) ==
    \/ apps = scan
    \/ \E S \in (SUBSET C15_Installed) \ {{}} : apps = BuildApps(system, C15_Without(S))

C15_ReadersGetCompleteMaps ==
    /\ \A t \in Threads : threads[t].pc = "done" => C15_Complete(threads[t].got)
    /\ launcher._apps_cache = <<>> \/ C15_Complete(launcher._apps_cache)

\* a thread was served the cached map while the other, still scanning, has a
\* partly built map in its local dict
C15_Witness ==
    \E t \in Threads : \E u \in Threads \ {t} :
        /\ threads[t].pc = "done"
        /\ threads[t].concurrent
        /\ threads[t].got # <<>>
        /\ threads[u].pc = "scan"
        /\ threads[u].apps # <<>>
        /\ ~C15_Complete(threads[u].apps)


(***************************************************************************)
(* C17: _normalize is idempotent, normalize(normalize(x)) = normalize(x),  *)
(* also for names that contain "ms" or "vs code" separated by punctuation, *)
(* tabs or repeated spaces.                                                *)
(* The source expands "ms " and "vs code" (lines 141-142) before it turns  *)
(* punctuation and white space into single spaces (lines 143-144): a       *)
(* separator other than one space hides the abbreviation from the first    *)
(* pass and the second pass expands it.                                    *)
(***************************************************************************)
C17_NormalizeIsIdempotent ==
    last.op = "_normalize" => _normalize(last.norm) = last.norm

\* the names the second pass changes
C17_SecondPassExpands ==
    /\ last.op = "_normalize"
    /\ _normalize(last.norm) # last.norm
    /\ Contains(_normalize(last.norm), <<"m","i","c","r","o","s","o","f","t">>)
           \/ Contains(_normalize(last.norm), <<"v","i","s","u","a","l">>)

\* a second pass that removes a filler word the first pass left
C17_SecondPassDropsFiller ==
    /\ last.op = "_normalize"
    /\ Len(_normalize(last.norm)) < Len(last.norm)

(***************************************************************************)
(* C18: _normalize is total: for every name it returns a string of         *)
(* lowercase letters, digits and single spaces, with no space at either    *)
(* end, and it returns the empty string for the empty name.                *)
(***************************************************************************)
\* lowercase letters, digits and single spaces, no space at either end
C18_Normal(s) ==
    /\ \A i \in 1..Len(s) : IsLowerAlnum(s[i]) \/ s[i] = " "
    /\ \A i \in 1..(Len(s) - 1) : ~(s[i] = " " /\ s[i + 1] = " ")
    /\ s # <<>> => s[1] # " " /\ s[Len(s)] # " "

C18_NormalizeIsTotal ==
    last.op = "_normalize" =>
        /\ C18_Normal(last.norm)
        /\ last.arg = <<>> => last.norm = <<>>

\* a name with an upper-case letter, a letter outside ASCII and a separator
\* that is not a space, normalized to two words
C18_Witness ==
    /\ last.op = "_normalize"
    /\ \E i \in 1..Len(last.arg) : last.arg[i] \in UpperSet
    /\ \E i \in 1..Len(last.arg) : last.arg[i] = "é"
    /\ \E i \in 1..Len(last.arg) : last.arg[i] \in {"\t", "-", "_", ".", "!"}
    /\ Len(split(last.norm)) >= 2
    /\ C18_Normal(last.norm)


(***************************************************************************)
(* C19: _is_app_running and speak_running_apps never raise: for every name *)
(* (a blank or white-space-only name included) and every failure of the    *)
(* structured OS query or of the process scan, _is_app_running returns     *)
(* false and speak_running_apps returns an empty list.                     *)
(* speak_running_apps is one try block and returns [] on any exception.    *)
(* In _is_app_running only osascript is inside the try: the psutil loop    *)
(* (lines 248-256) is outside, so an exception of process_iter, and the    *)
(* IndexError of tn.split()[0] on a name without a word, reach the caller. *)
(***************************************************************************)
\* the structured query gives no answer and the process scan fails
C19_BothFail == (system # "Darwin" \/ osa # "ok") /\ ~psutil_ok

C19_MonitorNeverRaises ==
    /\ last.op = "_is_app_running" =>
           /\ ~last.raised
           /\ C19_BothFail => last.ret = "False"
    /\ last.op = "speak_running_apps" =>
           /\ ~last.raised
           /\ C19_BothFail => last.running = <<>>

\* the part that holds: speak_running_apps never raises, it returns [] when
\* both queries fail, and _is_app_running returns a boolean when it returns
C19_ListNeverRaises ==
    /\ last.op = "speak_running_apps" =>
           /\ ~last.raised
           /\ C19_BothFail => last.running = <<>>
    /\ last.op = "_is_app_running" /\ ~last.raised => last.ret \in {"True", "False"}

\* _is_app_running raises on a blank name although both queries work
C19_BlankNameRaises ==
    /\ last.op = "_is_app_running"
    /\ last.raised
    /\ strip(last.arg) = <<>>
    /\ psutil_ok

\* _is_app_running raises when the process scan fails
C19_ScanFailureRaises ==
    /\ last.op = "_is_app_running"
    /\ last.raised
    /\ strip(last.arg) # <<>>
    /\ ~psutil_ok

\* speak_running_apps returns [] with processes running, both queries failing
C19_ListDegrades ==
    /\ last.op = "speak_running_apps"
    /\ C19_BothFail
    /\ procs # <<>>
    /\ last.running = <<>>

(***************************************************************************)
(* C20: in the fallback process scan a process matches a target name       *)
(* exactly when its lowercase name equals the lowercase target, equals the *)
(* target with the spaces removed, or contains the first word of the       *)
(* target.  (A target without a word has no first word: the source raises  *)
(* IndexError on it, which is part of C19.)                                *)
(***************************************************************************)
\* a call of _matches_process_name that returned
C20_Matched == last.op = "_matches_process_name" /\ ~last.raised

C20_MatchesAsClaimed ==
    C20_Matched =>
        (last.ret = "True" <=>
            \/ last.app_name = lower(last.arg)
            \/ last.app_name = replace(lower(last.arg), SP, <<>>)
            \/ Contains(last.app_name, split(lower(last.arg))[1]))

\* a match by the first word alone: the process name is neither the target
\* nor the target without spaces
C20_Witness ==
    /\ C20_Matched
    /\ last.ret = "True"
    /\ last.app_name # lower(last.arg)
    /\ last.app_name # replace(lower(last.arg), SP, <<>>)
    /\ Len(split(lower(last.arg))) > 1

\* a process that has the second word of the target and not the first
C20_NoMatchOnLaterWord ==
    /\ C20_Matched
    /\ last.ret = "False"
    /\ Len(split(lower(last.arg))) > 1
    /\ Contains(last.app_name, split(lower(last.arg))[2])


(***************************************************************************)
(* C21: every list speak_running_apps returns, from System Events or from  *)
(* the fallback process scan, is sorted, has no two names that are equal   *)
(* ignoring case, and has no name of the system/background denylist.       *)
(* The list of System Events is deduplicated on the lowercase names (lines *)
(* 357-362); the fallback scan tests "app_name not in running_apps" (line  *)
(* 388), which tells names apart that differ in case only.                 *)
(***************************************************************************)
C21_IsSorted(names) ==
    \A i \in 1..(Len(names) - 1) : ~StrLess(names[i + 1], names[i])

C21_NoTwoEqualIgnoringCase(names) ==
    \A i, j \in 1..Len(names) : lower(names[i]) = lower(names[j]) => i = j

C21_NoneDenylisted(names) ==
    \A i \in 1..Len(names) : names[i] \notin SeqRange(Banned)

\* the call answered from System Events
C21_FromSystemEvents ==
    /\ last.op = "speak_running_apps"
    /\ system = "Darwin"
    /\ _get_running_apps_macos(env) # <<>>

C21_ListSortedUniqueFiltered ==
    last.op = "speak_running_apps" =>
        /\ C21_IsSorted(last.running)
        /\ C21_NoTwoEqualIgnoringCase(last.running)
        /\ C21_NoneDenylisted(last.running)

\* what holds: every list is sorted, free of exact duplicates and of the
\* denylist, and the list of System Events has no two names equal ignoring
\* case
C21_ListSortedFiltered ==
    last.op = "speak_running_apps" =>
        /\ C21_IsSorted(last.running)
        /\ C21_NoneDenylisted(last.running)
        /\ \A i, j \in 1..Len(last.running) : last.running[i] = last.running[j] => i = j
        /\ C21_FromSystemEvents => C21_NoTwoEqualIgnoringCase(last.running)

\* the fallback scan returns two names that differ in case only
C21_FallbackKeepsCaseVariants ==
    /\ last.op = "speak_running_apps"
    /\ ~C21_FromSystemEvents
    /\ ~C21_NoTwoEqualIgnoringCase(last.running)

\* System Events lists two names that differ in case only and a denylisted
\* one: the list returned has one of the two and not the denylisted one
C21_SystemEventsDeduplicates ==
    /\ C21_FromSystemEvents
    /\ \E i, j \in 1..Len(procs) :
           i # j /\ procs[i].gui /\ procs[j].gui /\ lower(procs[i].name) = lower(procs[j].name)
    /\ \E i \in 1..Len(procs) : procs[i].gui /\ procs[i].name \in SeqRange(Banned)
    /\ Len(last.running) >= 2


(***************************************************************************)
(* C22: the list of running applications is derived at every call          *)
(***************************************************************************)
\* the list comes from System Events when the process table is `table'
C22_FromSystemEvents(table) ==
    /\ system = "Darwin"
    /\ _get_running_apps_macos([env EXCEPT !.procs = table]) # <<>>

\* process p is one that the source used for `table' lists
C22_Listable(p, table) ==
    IF C22_FromSystemEvents(table)
    THEN p.gui /\ strip(p.name) # <<>> /\ p.name \notin SeqRange(Banned)
    ELSE psutil_ok /\ p.name # <<>> /\ ~_is_system_process(p.name)

\* the second of two calls, with exactly process p started in between
C22_SecondCallAfter(p) ==
    /\ last.op = "speak_running_apps"
    /\ last.earlier.called
    /\ procs = Append(last.earlier.procs, p)

\* the name of p is new to the list
C22_New(p) ==
    \A n \in SeqRange(last.earlier.running) : lower(n) # lower(p.name)

C22_SourceChanges ==
    \E p \in SeqRange(Startable) :
        /\ C22_SecondCallAfter(p)
        /\ C22_FromSystemEvents(procs) /\ ~C22_FromSystemEvents(last.earlier.procs)
        /\ last.earlier.running # <<>>
        /\ SeqRange(last.running) = {p.name}


(***************************************************************************)
(* C23: platforms without a scan                                           *)
(***************************************************************************)
\* the alias map is empty and nothing resolves on a system other than macOS
C23_NothingIndexed ==
    system # "Darwin" =>
        /\ launcher._apps_cache = <<>>
        /\ scan = <<>>
        /\ last.op = "_resolve_application" => last.res = NoneResult /\ ~last.raised

\* open_application issued exactly one Popen, of `name'
C23_Launches(name) ==
    /\ Len(last.cmds) = 1
    /\ last.cmds[1].cmd = "popen"
    /\ last.cmds[1].name = name

\* C23 as stated: on every system other than macOS the alias map is empty,
\* nothing resolves, and open_application launches the literal query text.
C23_OpenLaunchesLiteralQuery ==
    /\ C23_NothingIndexed
    /\ system # "Darwin" /\ last.op = "open_application" => C23_Launches(last.arg)

\* C23, amended: on every system other than macOS the alias map is empty and
\* nothing resolves; open_application launches the literal query text on
\* Windows and the query text in lowercase on Linux, with one Popen.
C23_OpenLaunchesQueryText ==
    /\ C23_NothingIndexed
    /\ system = "Windows" /\ last.op = "open_application" => C23_Launches(last.arg)
    /\ system = "Linux" /\ last.op = "open_application" => C23_Launches(lower(last.arg))

\* on Linux, with application folders on the disk, a query with capitals
\* is launched in lowercase
C23_Witness ==
    /\ system = "Linux"
    /\ fsys["/Applications"].apps # <<>>
    /\ last.op = "open_application"
    /\ lower(last.arg) # last.arg
    /\ C23_Launches(lower(last.arg))
    /\ last.cmds[1].ok
    /\ launcher._apps_cache = <<>>

\* on a system that is neither Windows nor Linux nothing is launched
C23_NothingLaunched ==
    /\ system \notin {"Darwin", "Windows", "Linux"}
    /\ last.op = "open_application"
    /\ last.cmds = <<>>


(***************************************************************************)
(* C24: a quit of an application reported as not running                   *)
(***************************************************************************)
\* _is_app_running answers False for the target of the quit
C24_ReportedNotRunning ==
    /\ QuitRequest
    /\ _is_app_running(Target, AtCall) = "False"

\* C24: when the process monitor reports the target as not running, a quit
\* sends no quit request and signals no process, and the process table is
\* the same after the quit as before it.
C24_NotRunningTouchesNothing ==
    C24_ReportedNotRunning =>
        /\ last.cmds = <<>>
        /\ procs = last.before

\* the frame holds for quit_app_by_voice, and for quit_application on the
\* systems where the monitor and the terminate loop read the same table
C24_VoiceQuitTouchesNothing ==
    C24_ReportedNotRunning /\ (last.op = "quit_app_by_voice" \/ system # "Darwin") =>
        /\ last.cmds = <<>>
        /\ procs = last.before
        /\ last.ret = "False"

\* quit_application on macOS terminates a process that System Events does
\* not list as an application
C24_UnlistedProcessTerminated ==
    /\ C24_ReportedNotRunning
    /\ last.op = "quit_application"
    /\ system = "Darwin" /\ osa = "ok"
    /\ last.ret = "True"
    /\ procs # last.before
    /\ \E i \in 1..Len(last.cmds) : last.cmds[i].cmd = "terminate"
    /\ \A i \in 1..Len(last.cmds) : last.cmds[i].cmd # "osascript_quit"


(***************************************************************************)
(* C25: questions about running applications given to launch_app_by_voice  *)
(***************************************************************************)
\* the kind of question the guard of launch_app_by_voice sees in the command
C25_Kind == GuardKind(lower(strip(last.arg)))

C25_RunningStateQuestion ==
    /\ last.op = "launch_app_by_voice"
    /\ C25_Kind # "none"

\* the query of the running state itself fails
C25_QueryFails ==
    /\ C25_Kind = "is"
    /\ check_app_running_message(AppsOf(NewLauncher, AtCall), AtCall,
                                 IsRunningQuery(lower(strip(last.arg))).phrase).raised

\* the guard answered: success, no command, no change of the process table
C25_Answered ==
    /\ last.handled
    /\ ~last.raised
    /\ last.ret = "True"
    /\ last.message # <<>>
    /\ last.cmds = <<>>
    /\ procs = last.before

\* C25: a question about running applications passed to launch_app_by_voice
\* is answered with a success outcome that carries the answer, and no launch
\* or activate command is issued, also when the query of the running state
\* fails.
C25_QuestionIsAnswered == C25_RunningStateQuestion => C25_Answered

\* the questions are answered whenever the query of the running state works
C25_AnsweredWhenQueryWorks ==
    C25_RunningStateQuestion /\ ~C25_QueryFails => C25_Answered

\* after a failed query the question is parsed as a launch command and an
\* application is launched
C25_FailedQueryLaunches ==
    /\ C25_RunningStateQuestion
    /\ C25_QueryFails
    /\ ~last.handled
    /\ ~last.raised
    /\ \E i \in 1..Len(last.cmds) : last.cmds[i].cmd \in LaunchCmds /\ last.cmds[i].ok

\* after a failed query the exception of the second query leaves the handler
C25_FailedQueryRaises ==
    /\ C25_RunningStateQuestion
    /\ C25_QueryFails
    /\ last.raised


(***************************************************************************)
(* VoiceHandler (src/voice/voice_handler.py)                               *)
(***************************************************************************)
\* the number of calls made to one VoiceHandler from outside (a button
\* click, a speech-finished callback, a wake word)
MaxEntries == 2

\* a call in progress: of listen_for_command (listen) or process_command
\* (process), with the line it is at; retry marks a call of
\* listen_for_command made to ask again
Frame(fn, pc, retry) == [fn |-> fn, pc |-> pc, retry |-> retry]

\* the innermost call of thread t
Top(t) == voice.stack[t][Len(voice.stack[t])]

At(t, fn, pc) ==
    /\ voice.stack[t] # <<>>
    /\ Top(t).fn = fn
    /\ Top(t).pc = pc

\* the call stack of t with its innermost call at line pc
Moved(t, pc) == [voice.stack[t] EXCEPT ![Len(voice.stack[t])].pc = pc]

\* the call stack of t after its innermost call returned
Popped(t) == SubSeq(voice.stack[t], 1, Len(voice.stack[t]) - 1)

\* what listen_command gives: a command, nothing, or an exception of the
\* microphone
Hearings == {"command", "nothing", "error"}

\* what process_command does with a command: success (an application was
\* opened or quit, a question answered), failure (a non-success outcome),
\* chat (name, help and default branches, which always listen again), raise
Outcomes == {"success", "failure", "chat", "raise"}

VoiceInit ==
    /\ system = "Darwin"
    /\ fsys = Disks[1]
    /\ procs = <<>>
    /\ osa = "ok"
    /\ psutil_ok = TRUE
    /\ scan = BuildApps(system, fsys)
    /\ now = 0
    /\ launcher = NewLauncher
    /\ last = Idle
    /\ installs = {}
    /\ threads = [t \in Threads |-> IdleThread]
    /\ listed = NotListed
    /\ voice = NoVoice
    /\ speaker = NoSpeech

VoiceFrame == <<speaker, listed, threads, installs, system, fsys, scan, procs, osa, psutil_ok,
                now, launcher, last>>

\* start_voice_interaction, or the callback of
\* start_voice_interaction_with_callback: listen_for_command is called
StartVoiceInteraction(t) ==
    /\ voice.stack[t] = <<>>
    /\ voice.entries < MaxEntries
    /\ voice' = [voice EXCEPT !.stack[t] = <<Frame("listen", "check", FALSE)>>,
                              !.entries = @ + 1]
    /\ UNCHANGED VoiceFrame

\* continuous_voice_mode: process_command is called with the command heard
\* after the wake word
WakeCommand(t) ==
    /\ voice.stack[t] = <<>>
    /\ voice.entries < MaxEntries
    /\ voice' = [voice EXCEPT !.stack[t] = <<Frame("process", "run", FALSE)>>,
                              !.entries = @ + 1]
    /\ UNCHANGED VoiceFrame

\* line 94: if self.listening
CheckListening(t) ==
    /\ At(t, "listen", "check")
    /\ voice' = [voice EXCEPT !.stack[t] =
                     Moved(t, IF voice.listening THEN "skipped" ELSE "set")]
    /\ UNCHANGED VoiceFrame

\* lines 95-96: "Already listening, skipping..." and return
SkipListen(t) ==
    /\ At(t, "listen", "skipped")
    /\ voice' = [voice EXCEPT !.stack[t] = Popped(t)]
    /\ UNCHANGED VoiceFrame

\* line 98: self.listening = True
SetListening(t) ==
    /\ At(t, "listen", "set")
    /\ voice' = [voice EXCEPT !.listening = TRUE, !.stack[t] = Moved(t, "listen")]
    /\ UNCHANGED VoiceFrame

\* line 101: listen_command opens the microphone
StartListen(t) ==
    /\ At(t, "listen", "listen")
    /\ voice' = [voice EXCEPT !.stack[t] = Moved(t, "hearing")]
    /\ UNCHANGED VoiceFrame

\* lines 101-113: listen_command returns; a command goes to process_command,
\* nothing heard is answered and listen_for_command called again, an error
\* is answered; the call continues at the finally clause
Heard(t) ==
    \E h \in Hearings :
        /\ At(t, "listen", "hearing")
        /\ voice' = [voice EXCEPT !.stack[t] =
                         Moved(t, "finally") \o
                         CASE h = "command" -> <<Frame("process", "run", FALSE)>>
                           [] h = "nothing" -> <<Frame("listen", "check", TRUE)>>
                           [] OTHER         -> <<>>]
        /\ UNCHANGED VoiceFrame

\* lines 117-240: process_command speaks the outcome; after a non-success
\* (lines 131-132, 137-138, 152-153, 159-160) and in the chat branches
\* (lines 208, 226, 233, 240) it calls listen_for_command; an exception
\* leaves it
ProcessCommand(t) ==
    \E o \in Outcomes :
        /\ At(t, "process", "run")
        /\ voice' = [voice EXCEPT !.stack[t] =
                         IF o \in {"failure", "chat"}
                         THEN Moved(t, "return") \o <<Frame("listen", "check", TRUE)>>
                         ELSE Popped(t)]
        /\ UNCHANGED VoiceFrame

\* process_command returns after its call of listen_for_command
ReturnProcess(t) ==
    /\ At(t, "process", "return")
    /\ voice' = [voice EXCEPT !.stack[t] = Popped(t)]
    /\ UNCHANGED VoiceFrame

\* lines 114-115: finally: self.listening = False
Finally(t) ==
    /\ At(t, "listen", "finally")
    /\ voice' = [voice EXCEPT !.listening = FALSE, !.stack[t] = Popped(t)]
    /\ UNCHANGED VoiceFrame

\* the steps of a call in progress
VoiceStep(t) ==
    \/ CheckListening(t)
    \/ SkipListen(t)
    \/ SetListening(t)
    \/ StartListen(t)
    \/ Heard(t)
    \/ ProcessCommand(t)
    \/ ReturnProcess(t)
    \/ Finally(t)

VoiceNext ==
    \E t \in Threads :
        \/ StartVoiceInteraction(t)
        \/ WakeCommand(t)
        \/ VoiceStep(t)

VoiceSpec == VoiceInit /\ [][VoiceNext]_vars

\* a call in progress is not suspended for ever: threads are scheduled
VoiceLiveSpec == VoiceSpec /\ \A t \in Threads : WF_vars(VoiceStep(t))


(***************************************************************************)
(* C26: listening again after a failure                                    *)
(***************************************************************************)
\* thread t has just called listen_for_command to ask again
C26_RetryDue(t) == At(t, "listen", "check") /\ Top(t).retry

\* the microphone is open in a call of thread t
Hearing(t) == At(t, "listen", "hearing")

\* the call to ask again was made from inside listen_for_command
C26_Inside(t) ==
    \E i \in 1..(Len(voice.stack[t]) - 1) : voice.stack[t][i].fn = "listen"

\* C26: when the command given to process_command had a non-success outcome,
\* or when no command was heard, the handler listens again, also when
\* process_command was called from inside listen_for_command.
C26_FailureLeadsToListen ==
    \A t \in Threads : C26_RetryDue(t) ~> Hearing(t)

\* the call to ask again returns at once when it is made from inside
\* listen_for_command: the flag is still set
C26_RetrySkipped ==
    \E t \in Threads :
        /\ At(t, "listen", "skipped") /\ Top(t).retry
        /\ C26_Inside(t)
        /\ \A u \in Threads \ {t} : voice.stack[u] = <<>>

\* called from outside listen_for_command, process_command listens again
C26_RetryFromOutsideListens ==
    \E t \in Threads :
        /\ Hearing(t) /\ Top(t).retry
        /\ ~C26_Inside(t)

\* with no other thread in the handler, a call to ask again made from inside
\* listen_for_command never opens the microphone
C26_NoRetryFromInside ==
    \A t \in Threads :
        /\ voice.stack[t] # <<>> /\ Top(t).fn = "listen" /\ Top(t).retry
        /\ C26_Inside(t)
        /\ voice.entries = 1
        => Top(t).pc \in {"check", "skipped"}

(***************************************************************************)
(* C30: one listen at a time                                               *)
(***************************************************************************)
\* a call of listen_for_command is active in thread t
C30_Active(t) == \E i \in 1..Len(voice.stack[t]) : voice.stack[t][i].fn = "listen"

\* C30: at most one listen is in progress at any time, also when
\* listen_for_command is entered from two threads, and the listening flag
\* is false whenever no call of listen_for_command is active.
C30_OneListenAndFlagCleared ==
    /\ Cardinality({t \in Threads : Hearing(t)}) <= 1
    /\ (\A t \in Threads : ~C30_Active(t)) => ~voice.listening

\* the flag is false whenever no call of listen_for_command is active
C30_FlagClearedOnExit ==
    (\A t \in Threads : ~C30_Active(t)) => ~voice.listening

\* two threads passed the test of line 94 before either set the flag
C30_BothPassedTheTest ==
    \A t \in Threads : At(t, "listen", "set")

\* the microphone is open in two threads
C30_TwoListens ==
    \A t \in Threads : Hearing(t)


(***************************************************************************)
(* VoiceSpeaker (src/voice/speaker.py)                                     *)
(***************************************************************************)
\* speak without a callback, speak with an on_finished callback, and
\* speak_and_wait, whose callback sets finished_event
SpeakKinds == {"speak", "speak_callback", "speak_and_wait"}

SpeakerInit ==
    /\ system = "Darwin"
    /\ fsys = Disks[1]
    /\ procs = <<>>
    /\ osa = "ok"
    /\ psutil_ok = TRUE
    /\ scan = BuildApps(system, fsys)
    /\ now = 0
    /\ launcher = NewLauncher
    /\ last = Idle
    /\ installs = {}
    /\ threads = [t \in Threads |-> IdleThread]
    /\ listed = NotListed
    /\ voice = NoVoice
    /\ speaker = NoSpeech

SpeakerFrame == <<voice, listed, threads, installs, system, fsys, scan, procs, osa, psutil_ok,
                  now, launcher, last>>

\* lines 86-92 (for speak_and_wait lines 207-215 first): a thread calls speak
\* and the callback of the request is stored in the speaker, None (0) for a
\* speak without callback
Speak(r) ==
    \E kind \in SpeakKinds :
        /\ speaker.req[r].kind = "none"
        /\ speaker' = [speaker EXCEPT !.callback = IF kind = "speak" THEN 0 ELSE r,
                                      !.req[r].kind = kind,
                                      !.req[r].caller = "stored"]
        /\ UNCHANGED SpeakerFrame

\* line 112: the thread of _speak_threaded is started and speak returns;
\* speak_and_wait goes on to finished_event.wait (line 218)
StartThread(r) ==
    /\ speaker.req[r].caller = "stored"
    /\ speaker' = [speaker EXCEPT !.req[r].worker = "ready",
                                  !.req[r].caller =
                                      IF speaker.req[r].kind = "speak_and_wait"
                                      THEN "waiting" ELSE "returned"]
    /\ UNCHANGED SpeakerFrame

\* line 116: with self.speaking_lock
Acquire(r) ==
    /\ speaker.req[r].worker = "ready"
    /\ speaker.lock = 0
    /\ speaker' = [speaker EXCEPT !.lock = r, !.req[r].worker = "locked"]
    /\ UNCHANGED SpeakerFrame

\* lines 117-120: return if already speaking, else self.is_speaking = True
Begin(r) ==
    /\ speaker.req[r].worker = "locked"
    /\ speaker' = IF speaker.is_speaking
                  THEN [speaker EXCEPT !.lock = 0, !.req[r].worker = "done"]
                  ELSE [speaker EXCEPT !.is_speaking = TRUE, !.req[r].worker = "playing"]
    /\ UNCHANGED SpeakerFrame

\* lines 122-134: the text is played (ElevenLabs or the fallback), then
\* self.is_speaking = False
Played(r) ==
    /\ speaker.req[r].worker = "playing"
    /\ speaker' = [speaker EXCEPT !.is_speaking = FALSE, !.req[r].played = TRUE,
                                  !.req[r].worker = "finished"]
    /\ UNCHANGED SpeakerFrame

\* line 137: if self._speech_finished_callback
CheckCallback(r) ==
    /\ speaker.req[r].worker = "finished"
    /\ speaker' = IF speaker.callback # 0
                  THEN [speaker EXCEPT !.req[r].worker = "calling"]
                  ELSE [speaker EXCEPT !.lock = 0, !.req[r].worker = "done"]
    /\ UNCHANGED SpeakerFrame

\* the speaker after the callback of request c was called: finished_event of
\* a speak_and_wait is set; early counts the calls made before the text of c
\* was played
Called(s, c) ==
    [s EXCEPT !.req[c].calls = @ + 1,
              !.req[c].event = (s.req[c].kind = "speak_and_wait"),
              !.req[c].early = IF s.req[c].played THEN @ ELSE @ + 1]

\* line 139: self._speech_finished_callback(), the callback stored at this
\* moment; None is not callable and the TypeError is printed (lines 140-141)
CallCallback(r) ==
    /\ speaker.req[r].worker = "calling"
    /\ speaker' = [(IF speaker.callback # 0 THEN Called(speaker, speaker.callback)
                    ELSE speaker)
                   EXCEPT !.req[r].worker = "clearing"]
    /\ UNCHANGED SpeakerFrame

\* lines 142-143: self._speech_finished_callback = None; the lock is released
ClearCallback(r) ==
    /\ speaker.req[r].worker = "clearing"
    /\ speaker' = [speaker EXCEPT !.callback = 0, !.lock = 0, !.req[r].worker = "done"]
    /\ UNCHANGED SpeakerFrame

\* line 218: finished_event.wait returns because the event is set
Wake(r) ==
    /\ speaker.req[r].caller = "waiting"
    /\ speaker.req[r].event
    /\ speaker' = [speaker EXCEPT !.req[r].caller = "returned"]
    /\ UNCHANGED SpeakerFrame

\* line 218: finished_event.wait(timeout=30) returns after 30 seconds
Timeout(r) ==
    /\ speaker.req[r].caller = "waiting"
    /\ ~speaker.req[r].event
    /\ speaker' = [speaker EXCEPT !.req[r].caller = "returned",
                                  !.req[r].timed_out = TRUE]
    /\ UNCHANGED SpeakerFrame

SpeakerNext ==
    \E r \in Requests :
        \/ Speak(r)
        \/ StartThread(r)
        \/ Acquire(r)
        \/ Begin(r)
        \/ Played(r)
        \/ CheckCallback(r)
        \/ CallCallback(r)
        \/ ClearCallback(r)
        \/ Wake(r)
        \/ Timeout(r)

SpeakerSpec == SpeakerInit /\ [][SpeakerNext]_vars

(***************************************************************************)
(* C27: speak_and_wait waits for its own text                              *)
(***************************************************************************)
\* the requests made so far
C27_Made == {r \in Requests : speaker.req[r].kind # "none"}

\* every thread of _speak_threaded started so far has ended
C27_Quiet ==
    \A r \in C27_Made : speaker.req[r].worker = "done" /\ speaker.req[r].caller = "returned"

C27_HasCallback(r) == speaker.req[r].kind \in {"speak_callback", "speak_and_wait"}

\* C27: speak_and_wait returns only after the playback of its own text has
\* finished, also with another request on the shared speaker, and each
\* on_finished callback is called once, after the speech it was given with.
C27_WaitsForOwnPlayback ==
    \A r \in Requests :
        /\ speaker.req[r].kind = "speak_and_wait" /\ speaker.req[r].caller = "returned" =>
               speaker.req[r].played
        /\ speaker.req[r].calls <= 1
        /\ speaker.req[r].early = 0
        /\ C27_Quiet /\ C27_HasCallback(r) => speaker.req[r].calls = 1

\* with one request on the speaker and no timeout, the claim holds
C27_AloneWaitsForOwnPlayback ==
    \A r \in Requests :
        C27_Made = {r} /\ ~speaker.req[r].timed_out =>
            /\ speaker.req[r].kind = "speak_and_wait" /\ speaker.req[r].caller = "returned" =>
                   speaker.req[r].played
            /\ speaker.req[r].calls <= 1
            /\ speaker.req[r].early = 0
            /\ C27_Quiet /\ C27_HasCallback(r) => speaker.req[r].calls = 1

\* a speak_and_wait has returned, woken by its event, before its text was
\* played
C27_ReturnsBeforeOwnPlayback ==
    \E r \in Requests :
        /\ speaker.req[r].kind = "speak_and_wait"
        /\ speaker.req[r].caller = "returned"
        /\ ~speaker.req[r].timed_out
        /\ ~speaker.req[r].played

\* the callback of a request was replaced before it was called, and is
\* never called
C27_CallbackLost ==
    /\ C27_Quiet
    /\ \E r \in Requests : C27_HasCallback(r) /\ speaker.req[r].calls = 0

\* the lock keeps is_speaking false whenever a thread takes it
C27_NeverAlreadySpeaking ==
    \A r \in Requests : speaker.req[r].worker = "locked" => ~speaker.is_speaking


(***************************************************************************)
(* Applications whose aliases overlap                                      *)
(***************************************************************************)
N_VLCMediaPlayer == <<"V","L","C"," ","M","e","d","i","a"," ","P","l","a","y","e","r">>

N_VLCMedia == <<"V","L","C"," ","M","e","d","i","a">>

\* a disk where the short form of "VLC Media Player" (line 155-156) is the
\* normalised name of "VLC Media", found later in the scan; and the third
\* disk of the engine's model
AliasDisks ==
    << Disk([r \in {"/Applications", "~/Applications"} |->
                IF r = "/Applications"
                THEN Root(<<Bundle(N_VLCMediaPlayer, "/Applications/VLC Media Player.app"),
                            Bundle(N_Safari, "/Applications/Safari.app")>>)
                ELSE Root(<<Bundle(N_VLCMedia, "~/Applications/VLC Media.app")>>)]),
       Disks[3] >>

AliasQuerySeq ==
    << <<"v","l","c","m","e","d","i","a">>,
       N_VLCMedia,
       <<"v","l","c"," ","m","e","d","i","a"," ","p","l","a","y","e","r">>,
       N_Safari,
       N_VLCPlayer >>

AliasCommandSeq ==
    << <<"o","p","e","n"," ","v","l","c","m","e","d","i","a">>,
       <<"o","p","e","n"," ","v","l","c"," ","m","e","d","i","a">>,
       <<"o","p","e","n"," ","s","a","f","a","r","i">> >>

AliasInputs ==
    {[command |-> c, gpt |-> Gpt("absent", <<>>),
      parse |-> LaunchParse(c, Gpt("absent", <<>>))] : c \in SeqRange(AliasCommandSeq)}

AliasInit ==
    /\ system = "Darwin"
    /\ fsys \in SeqRange(AliasDisks)
    /\ procs \in SeqRange(ProcessTables)
    /\ osa \in {"ok", "inconclusive", "raises"}
    /\ psutil_ok \in BOOLEAN
    /\ scan = BuildApps(system, fsys)
    /\ now = 0
    /\ launcher = NewLauncher
    /\ last = Idle
    /\ installs = {}
    /\ threads = [t \in Threads |-> IdleThread]
    /\ listed = NotListed
    /\ voice = NoVoice
    /\ speaker = NoSpeech

AliasNext ==
    \/ \E query \in SeqRange(AliasQuerySeq) : ResolveQuery(query)
    \/ \E in \in AliasInputs, pathOk \in BOOLEAN, nameOk \in BOOLEAN :
           LaunchInput(in, pathOk, nameOk)
    \/ Return

AliasSpec == AliasInit /\ [][AliasNext]_vars

(***************************************************************************)
(* C28: resolving the display name again                                   *)
(***************************************************************************)
\* a query has resolved to an application
C28_ResolvedQuery ==
    /\ last.op = "_resolve_application"
    /\ last.res.found

\* launch_app_by_voice resolved its phrase and launched by path
C28_LaunchedByPath ==
    /\ last.op = "launch_app_by_voice"
    /\ ~last.handled /\ ~last.raised
    /\ Resolved.found
    /\ \E i \in 1..Len(last.cmds) : last.cmds[i].cmd = "open_path"

\* C28: for every query that resolves to display name d and path p,
\* resolving d again returns p, so that the application launch_app_by_voice
\* launches through open_application(d) is the application it names.
C28_DisplayNameResolvesToSamePath ==
    /\ C28_ResolvedQuery =>
           /\ _resolve_application(scan, last.res.display).found
           /\ _resolve_application(scan, last.res.display).path = last.res.path
    /\ C28_LaunchedByPath =>
           /\ last.app_name = Resolved.display
           /\ \A i \in 1..Len(last.cmds) :
                  last.cmds[i].cmd = "open_path" => last.cmds[i].path = Resolved.path

C28_Witness ==
    /\ C28_LaunchedByPath
    /\ lower(last.query) # lower(Resolved.display)
    /\ last.ret = "True"
    /\ \E i \in 1..Len(last.cmds) :
           last.cmds[i] = Cmd("open_path", Resolved.display, Resolved.path, TRUE)


\* the display name of the application a query resolved to belongs, as an
\* alias, to an application scanned earlier
C28_NameOwnedByEarlierApp ==
    /\ C28_ResolvedQuery
    /\ _resolve_application(scan, last.res.display).found
    /\ _resolve_application(scan, last.res.display).path # last.res.path

\* launch_app_by_voice names one application and launches another
C28_LaunchesAnotherApp ==
    /\ C28_LaunchedByPath
    /\ last.ret = "True"
    /\ last.app_name = Resolved.display
    /\ \E i \in 1..Len(last.cmds) :
           /\ last.cmds[i].cmd = "open_path" /\ last.cmds[i].ok
           /\ last.cmds[i].path # Resolved.path

\* the alias map binds the normalised display name to the application itself
C28_OwnsItsName(resolved) ==
    _resolve_application(scan, _normalize(resolved.display)).path = resolved.path

\* the claim holds for every application whose normalised name is its own
\* alias in the map
C28_SamePathWhenNameIsOwnAlias ==
    /\ C28_ResolvedQuery /\ C28_OwnsItsName(last.res) =>
           _resolve_application(scan, last.res.display).path = last.res.path
    /\ C28_LaunchedByPath /\ C28_OwnsItsName(Resolved) =>
           \A i \in 1..Len(last.cmds) :
               last.cmds[i].cmd = "open_path" => last.cmds[i].path = Resolved.path


(***************************************************************************)
(* Quitting with several matching processes                                *)
(***************************************************************************)
\* the process tables of the engine's model, and two where a process that
\* refuses the signal comes before others that match
QuitTables ==
    ProcessTables \o
    << <<Process(N_VLCHelper, FALSE, TRUE), Process(N_VLCPlayer, TRUE, FALSE),
         Process(N_VLC, TRUE, FALSE)>>,
       <<Process(N_Safari, TRUE, FALSE), Process(N_VLCPlayer, TRUE, TRUE),
         Process(N_VLCHelper, FALSE, FALSE), Process(N_VLC, FALSE, FALSE)>> >>

QuitInit ==
    /\ system \in Systems
    /\ fsys \in SeqRange(Disks)
    /\ procs \in SeqRange(QuitTables)
    /\ osa \in {"ok", "inconclusive", "raises"}
    /\ psutil_ok \in BOOLEAN
    /\ system # "Darwin" => fsys = Disks[1] /\ osa = "ok"
    /\ scan = BuildApps(system, fsys)
    /\ now = 0
    /\ launcher = NewLauncher
    /\ last = Idle
    /\ installs = {}
    /\ threads = [t \in Threads |-> IdleThread]
    /\ listed = NotListed
    /\ voice = NoVoice
    /\ speaker = NoSpeech

QuitNext ==
    \/ QuitApplication
    \/ QuitAppByVoice
    \/ Return

QuitSpec == QuitInit /\ [][QuitNext]_vars

(***************************************************************************)
(* C29: the forceful fallback signals one process                          *)
(***************************************************************************)
\* the terminate calls of the quit that went through
C29_Signalled == {i \in 1..Len(last.cmds) : last.cmds[i].cmd = "terminate" /\ last.cmds[i].ok}

\* the process table the fallback scans: the one of the call, or the one the
\* graceful request left
C29_Scanned == {last.before, WithoutApp(last.before, Target)}

\* the process named name is the first of table T that matches the target and
\* accepts the signal, and the table after the quit is T, with or without it
C29_FirstSignalable(T, name) ==
    \E i \in 1..Len(T) :
        /\ MatchingAt(T, Target, i) /\ ~T[i].denied
        /\ \A j \in 1..(i - 1) : T[j].denied \/ ~MatchingAt(T, Target, j)
        /\ T[i].name = name
        /\ procs \in {T, RemoveAt(T, i)}

\* C29: the forceful fallback of a quit signals at most one process, the
\* first in scan order whose name matches the target and that accepts the
\* signal; success is reported right after the signal; the name of every
\* process signalled contains the first word of the target name.
C29_OneProcessSignalled ==
    QuitRequest =>
        /\ Cardinality(C29_Signalled) <= 1
        /\ \A i \in C29_Signalled :
               /\ ~MatchRaises(Target)
               /\ i = Len(last.cmds)
               /\ last.ret = "True"
               /\ \E T \in C29_Scanned : C29_FirstSignalable(T, last.cmds[i].name)
               /\ Contains(lower(last.cmds[i].name), split(lower(Target))[1])

\* a process refused the signal, the next matching one was signalled, and a
\* third matching process was left alone
C29_Witness ==
    /\ QuitRequest
    /\ \E i \in C29_Signalled :
           /\ i > 1
           /\ last.cmds[i - 1].cmd = "terminate" /\ ~last.cmds[i - 1].ok
           /\ Len(procs) = Len(last.before) - 1
           /\ \E j \in 1..Len(procs) :
                  /\ ~procs[j].denied
                  /\ MatchingAt(procs, Target, j)

====
